---- MODULE Spec2Model ----
(***************************************************************************)
(* A model of the lead-capture front end:                                  *)
(*   - the shared validation schema (shared/schema.ts): sanitizeInput,     *)
(*     phoneRegex and leadSubmissionSchema, as pure operators over         *)
(*     strings, with a specification (SpecSchema) that applies safeParse   *)
(*     to inputs drawn from bounded sets;                                  *)
(*   - the setup wizard (client/pages/Setup.tsx): the step state, the      *)
(*     browser storage behind safeLocalStorage, the effects and the        *)
(*     handlers that move the step (Spec).                                 *)
(* A string is a sequence of one-character strings.                        *)
(***************************************************************************)
EXTENDS Integers, Sequences, FiniteSets, TLC

VARIABLES
    \* ---- validation schema
    lead,          \* the untrusted object handed to safeParse
    result,        \* what safeParse returned for it
    again,         \* what safeParse returned for the output of the first call
    schemaPc,      \* "input" before the call, "parsed" after it, "reparsed" after the second
    \* ---- setup wizard
    page,          \* "loading" (no document rendered yet) or "mounted"
    step,          \* useState step; while loading, the step shown at unload
    stored,        \* localStorage value under SETUP_STORAGE_KEY (Null: absent)
    storageMode,   \* how the browser's localStorage behaves in this session
    wantsSlack,    \* notificationPreferences.wantsSlack
    restartSetup,  \* useState restartSetup
    configured,    \* setupStatus?.configured: "undefined", "true" or "false"
    fetching,      \* a status request for the current query key is in flight
    polling,       \* that request was issued by the refetch interval
    oldFetches,    \* status requests are in flight for query keys of earlier steps
    seenTrue,      \* the query cache holds a status with configured = true
    seenFalse,     \* the query cache holds a status with configured = false
    isRateLimited, \* useState isRateLimited
    everLimited,   \* history: a status request of this session was answered with HTTP 429
    journey,       \* history: how far the user who asked for Slack has come
    savedFrom,     \* history: the step on which the pending branding save was started
    serverConfigured, \* what GET /api/v1/setup/status would report now
    effects,       \* effects scheduled by the last commit and not yet run
    urlParam,      \* query string of the page: "none", "success" or "error"
    oauthTimer,    \* the 500 ms timer of the OAuth redirect effect is pending
    branding,      \* saveBrandingMutation: [status, step seen by onSuccess]
    credentials,   \* saveCredentialsMutation: [status, from: who started it]
    slackWait,     \* the Slack handler is past mutateAsync, awaiting refetchStatus
    validate,      \* validateMutation: [status, step seen by onSuccess]
    cardReset,     \* SetupCompleteCard.handleReset awaits its DELETE response
    intact,        \* ghost: the page was unloaded quiescent, progress stored, not configured
    \* ---- application configuration (useAppConfig)
    cfgPc,         \* "idle", or "fetching" while queryFn runs
    cfgTransport,  \* what the network did to the first attempt of the last fetch
    cfgFailureCount, \* failed attempts of the last fetch that were retried
    cfgResult,     \* how the last fetch settled: resolved with a config, or rejected
    cfgFetches,    \* fetches started since the page was opened
    \* ---- lead forms (DemoFormSection, EmbeddableForm)
    formKind,      \* which form is on the page: "demo" or "embed"
    csrfToken,     \* data of the csrf-token query (0: undefined or empty)
    csrfFetching,  \* the csrf-token query is fetching
    issued,        \* tokens the server has issued so far
    mutationPc,    \* "idle", "token" (mutationFn awaits getCsrfToken), "posting"
    postToken,     \* X-CSRF-Token of the POST in flight or last sent (0: no header)
    postStatus,    \* HTTP status of the last submit response (0: none yet)
    formMounted,   \* the form component is mounted
    honeypot,      \* the hidden _honeypot input holds a value
    submits,       \* times the submit handler has run with valid fields
    mutationError, \* mutation.isError and mutation.error: [isError, message, status]
    rootError,     \* form.formState.errors.root?.message (empty: none)
    isSuccess,     \* useState isSuccess
    timers,        \* pending success-reset timers (setTimeout of onSuccess)
    posts,         \* POST /api/v1/submit-lead requests in flight
    \* ---- state-changing requests of the setup page
    reqKind,       \* the handler that ran last ("none" before the first)
    reqPc,         \* "idle", "token" (awaiting getCsrfToken) or "sent"
    reqHeader,     \* X-CSRF-Token of the request in flight or last sent (0: no header)
    \* ---- safeLocalStorage called directly
    stOp,          \* the method called last: "none", "getItem", "setItem", "removeItem"
    stArg,         \* the value passed to setItem (Null for the other methods)
    stBefore,      \* what storage held under the key when the method was called
    stReturn,      \* what the method returned: [bool, text]
    \* ---- character counter of the wizard's text fields
    countField,    \* the field passed to getCharCountText
    valueLength,   \* value.length of the value passed
    countText      \* the text returned (empty: not called yet)

schemaVars == <<lead, result, again, schemaPc>>
configVars == <<cfgPc, cfgTransport, cfgFailureCount, cfgResult, cfgFetches>>
formVars == <<formKind, csrfToken, csrfFetching, issued, mutationPc, postToken, postStatus,
              formMounted, honeypot, submits, mutationError, rootError, isSuccess, timers,
              posts>>
requestVars == <<reqKind, reqPc, reqHeader>>
helperVars == <<stOp, stArg, stBefore, stReturn, countField, valueLength, countText>>
wizardVars == <<page, step, stored, storageMode, wantsSlack, restartSetup,
                configured, fetching, polling, oldFetches, seenTrue, seenFalse, isRateLimited, everLimited,
                journey, savedFrom, serverConfigured, effects, urlParam, oauthTimer, branding,
                credentials, slackWait, validate, cardReset, intact>>
vars == <<lead, result, again, schemaPc, page, step, stored, storageMode, wantsSlack,
          restartSetup, configured, fetching, polling, oldFetches, seenTrue, seenFalse, isRateLimited, everLimited,
          journey, savedFrom, serverConfigured, effects, urlParam, oauthTimer, branding,
          credentials, slackWait, validate, cardReset, intact,
          cfgPc, cfgTransport, cfgFailureCount, cfgResult, cfgFetches,
          formKind, csrfToken, csrfFetching, issued, mutationPc, postToken, postStatus,
          formMounted, honeypot, submits, mutationError, rootError, isSuccess, timers, posts,
          reqKind, reqPc, reqHeader,
          stOp, stArg, stBefore, stReturn, countField, valueLength, countText>>

(***************************************************************************)
(* Characters and strings                                                  *)
(***************************************************************************)
LowerLetters == {"a", "b", "c", "j", "o"}
UpperLetters == {"A", "B", "C", "J", "O"}
Letters == LowerLetters \cup UpperLetters
Digits == {"0", "1", "2", "3", "4", "5", "6", "7", "8", "9"}
AlphaNum == Letters \cup Digits
\* what String.prototype.trim and the regex class \s remove
WhiteSpace == {" ", "\t", "\n", "\r"}

Undefined == <<"undefined">>    \* a property that is absent from the object

Range(s) == {s[i] : i \in 1..Len(s)}
Repeat(c, n) == [i \in 1..n |-> c]

UpperAlphabet ==
    <<"A", "B", "C", "D", "E", "F", "G", "H", "I", "J", "K", "L", "M", "N", "O", "P", "Q", "R", "S", "T", "U", "V", "W", "X", "Y", "Z">>
LowerAlphabet ==
    <<"a", "b", "c", "d", "e", "f", "g", "h", "i", "j", "k", "l", "m", "n", "o", "p", "q", "r", "s", "t", "u", "v", "w", "x", "y", "z">>
lowerChar(c) ==
    IF \E i \in 1..Len(UpperAlphabet) : UpperAlphabet[i] = c
    THEN LowerAlphabet[CHOOSE i \in 1..Len(UpperAlphabet) : UpperAlphabet[i] = c]
    ELSE c

\* String.prototype.toLowerCase; the letters of the inputs come first
LowerChar(c) ==
    CASE c = "A" -> "a" [] c = "B" -> "b" [] c = "C" -> "c"
      [] c = "J" -> "j" [] c = "O" -> "o" [] OTHER -> lowerChar(c)
toLowerCase(s) == [i \in 1..Len(s) |-> LowerChar(s[i])]

\* String.prototype.trim
trim(s) ==
    LET keep == {i \in 1..Len(s) : s[i] \notin WhiteSpace}
    IN  IF keep = {} THEN <<>>
        ELSE LET first == CHOOSE i \in keep : \A j \in 1..(i - 1) : s[j] \in WhiteSpace
                 last  == CHOOSE i \in keep : \A j \in (i + 1)..Len(s) : s[j] \in WhiteSpace
             IN  SubSeq(s, first, last)

\* val.replace(/\s/g, "")
isNonSpace(c) == c \notin WhiteSpace
removeWhitespace(s) == SelectSeq(s, isNonSpace)

(***************************************************************************)
(* sanitizeInput: DOMPurify.sanitize(input, {ALLOWED_TAGS: [],             *)
(* ALLOWED_ATTR: []}).trim().  DOMPurify returns its input untouched when  *)
(* it holds no "<"; otherwise it parses the input as HTML, removes every   *)
(* element and comment while keeping the text inside, and returns the      *)
(* serialisation (innerHTML) of what is left, in which the text characters *)
(* &, < and > are written as entities.  The letters of the model spell no  *)
(* character reference and there is no quote character, so an & is always  *)
(* text and a tag always ends at the next ">".                             *)
(***************************************************************************)
HtmlSpecial == {"<", ">", "&", "\r"}
EntAmp == <<"&", "a", "m", "p", ";">>
EntLt == <<"&", "l", "t", ";">>
EntGt == <<"&", "g", "t", ";">>

\* the first position >= i holding a character the tokenizer treats specially
nextSpecial(s, i) ==
    CHOOSE j \in i..(Len(s) + 1) :
        /\ (j = Len(s) + 1 \/ s[j] \in HtmlSpecial)
        /\ \A k \in i..(j - 1) : s[k] \notin HtmlSpecial

\* "<" opens a start tag before a letter, and an end tag or a bogus comment
\* before "/" followed by anything; before any other character it is text
tagOpensAt(s, i) ==
    /\ s[i] = "<"
    /\ i < Len(s)
    /\ \/ s[i + 1] \in Letters
       \/ s[i + 1] = "/" /\ i + 1 < Len(s)

\* the position of the ">" closing the tag opened at i; a tag the input ends
\* inside of is dropped to the end of the input
tagEnd(s, i) ==
    CHOOSE j \in (i + 2)..(Len(s) + 1) :
        /\ (j = Len(s) + 1 \/ s[j] = ">")
        /\ \A k \in (i + 2)..(j - 1) : s[k] # ">"

RECURSIVE serializeFrom(_, _)
serializeFrom(s, i) ==
    IF i > Len(s) THEN <<>>
    ELSE LET j == nextSpecial(s, i)
         IN  IF j > i THEN SubSeq(s, i, j - 1) \o serializeFrom(s, j)
             ELSE IF s[i] = "&" THEN EntAmp \o serializeFrom(s, i + 1)
             ELSE IF s[i] = ">" THEN EntGt \o serializeFrom(s, i + 1)
             ELSE IF s[i] = "\r"
                  THEN IF i < Len(s) /\ s[i + 1] = "\n"
                       THEN serializeFrom(s, i + 1)
                       ELSE <<"\n">> \o serializeFrom(s, i + 1)
             ELSE IF tagOpensAt(s, i) THEN serializeFrom(s, tagEnd(s, i) + 1)
             ELSE EntLt \o serializeFrom(s, i + 1)

domPurifySanitize(dirty) ==
    IF "<" \notin Range(dirty) THEN dirty ELSE serializeFrom(dirty, 1)

sanitizeInput(input) == trim(domPurifySanitize(input))

(***************************************************************************)
(* phoneRegex = /^[+]?[(]?[0-9]{3}[)]?[-\s.]?[0-9]{3}[-\s.]?[0-9]{4,6}$/   *)
(* Every optional element is a single character that is no digit and is    *)
(* followed by a digit, so the match is decided by one left-to-right scan. *)
(***************************************************************************)
PhoneSeparators == {"-", "."} \cup WhiteSpace

\* s holds digits at positions from..(from + n - 1)
digitsAt(s, from, n) ==
    /\ from + n - 1 <= Len(s)
    /\ \A i \in from..(from + n - 1) : s[i] \in Digits

\* the position after an optional character of class cls at position i
skipOptional(s, i, cls) == IF i <= Len(s) /\ s[i] \in cls THEN i + 1 ELSE i

phoneRegexTest(s) ==
    LET p1 == skipOptional(s, 1, {"+"})
        p2 == skipOptional(s, p1, {"("})
        p3 == skipOptional(s, p2 + 3, {")"})
        p4 == skipOptional(s, p3, PhoneSeparators)
        p5 == skipOptional(s, p4 + 3, PhoneSeparators)
        rest == Len(s) - p5 + 1
    IN  /\ digitsAt(s, p2, 3)
        /\ digitsAt(s, p4, 3)
        /\ rest \in 4..6
        /\ digitsAt(s, p5, rest)

(***************************************************************************)
(* zod: the string checks, the email pattern, and leadSubmissionSchema     *)
(***************************************************************************)
NameMax == 100
EmailMax == 255
MessageMax == 1000

Issue(p, m) == [path |-> p, message |-> m]

\* z.string().min(n, msg): the issue is raised when the length is below n
minCheck(path, s, n, msg) == IF Len(s) < n THEN <<Issue(path, msg)>> ELSE <<>>
\* a variant of max that also raises the issue at length n
maxCheckExclusive(path, s, n, msg) == IF Len(s) >= n THEN <<Issue(path, msg)>> ELSE <<>>
\* z.string().max(n, msg): the issue is raised when the length is above n
maxCheck(path, s, n, msg) == IF Len(s) > n THEN <<Issue(path, msg)>> ELSE <<>>

\* zod's email pattern
\*   /^(?!\.)(?!.*\.\.)([A-Z0-9_'+\-\.]*)[A-Z0-9_+-]@([A-Z0-9][A-Z0-9\-]*\.)+[A-Z]{2,}$/i
EmailLocalChars == AlphaNum \cup {"_", "'", "+", "-", "."}
EmailLocalLast == AlphaNum \cup {"_", "+", "-"}
isEmail(s) ==
    LET ats == {i \in 1..Len(s) : s[i] = "@"}
    IN  /\ Cardinality(ats) = 1
        /\ LET at == CHOOSE i \in ats : TRUE
               dots == {i \in (at + 1)..Len(s) : s[i] = "."}
           IN  /\ at > 1
               /\ s[1] # "."
               /\ \A i \in 1..(Len(s) - 1) : ~(s[i] = "." /\ s[i + 1] = ".")
               /\ \A i \in 1..(at - 1) : s[i] \in EmailLocalChars
               /\ s[at - 1] \in EmailLocalLast
               /\ dots # {}
               /\ at < Len(s)
               /\ s[at + 1] \in AlphaNum
               /\ \A i \in (at + 1)..Len(s) : s[i] \in AlphaNum \cup {"-", "."}
               /\ \A i \in dots : i < Len(s) /\ s[i + 1] \in AlphaNum
               /\ LET lastDot == CHOOSE i \in dots : \A k \in dots : k <= i
                  IN  /\ Len(s) - lastDot >= 2
                      /\ \A i \in (lastDot + 1)..Len(s) : s[i] \in Letters

\* (val) => !/[\r\n]/.test(val)
hasNewline(s) == \E i \in 1..Len(s) : s[i] \in {"\n", "\r"}

\* Each field parser returns the issues it raises and the value it yields.
\* A transform runs only on a value that passed the checks before it, and a
\* pipe's second schema runs only on a value the first one accepted.

\* name: z.string().min(1).max(100).transform(sanitizeInput).pipe(z.string().min(1))
nameField(v) ==
    IF v = Undefined THEN [issues |-> <<Issue("name", "Required")>>, value |-> v]
    ELSE LET raw == minCheck("name", v, 1, "Name is required")
                    \o maxCheck("name", v, NameMax, "Name is too long")
             out == sanitizeInput(v)
         IN  IF raw # <<>> THEN [issues |-> raw, value |-> v]
             ELSE [issues |-> minCheck("name", out, 1, "Name is required"),
                   value |-> out]

\* a variant of the email field that validates the address with its white
\* space taken out, as the phone field does, and yields the trimmed address
emailFieldWhitespaceBlind(v) ==
    IF v = Undefined THEN [issues |-> <<Issue("email", "Required")>>, value |-> v]
    ELSE LET val == removeWhitespace(v)
             found ==
                 (IF isEmail(val) THEN <<>>
                  ELSE <<Issue("email", "Please enter a valid email address")>>)
                 \o maxCheck("email", val, EmailMax, "Email is too long")
                 \o (IF hasNewline(val)
                     THEN <<Issue("email", "Email cannot contain newlines")>>
                     ELSE <<>>)
         IN  IF found # <<>> THEN [issues |-> found, value |-> val]
             ELSE [issues |-> <<>>, value |-> toLowerCase(sanitizeInput(trim(v)))]

\* email: z.string().trim().email().max(255).refine(no CR/LF).transform(sanitize, lowercase)
emailField(v) ==
    IF v = Undefined THEN [issues |-> <<Issue("email", "Required")>>, value |-> v]
    ELSE LET val == trim(v)
             found ==
                 (IF isEmail(val) THEN <<>>
                  ELSE <<Issue("email", "Please enter a valid email address")>>)
                 \o maxCheck("email", val, EmailMax, "Email is too long")
                 \o (IF hasNewline(val)
                     THEN <<Issue("email", "Email cannot contain newlines")>>
                     ELSE <<>>)
         IN  IF found # <<>> THEN [issues |-> found, value |-> val]
             ELSE [issues |-> <<>>, value |-> toLowerCase(sanitizeInput(val))]

\* a variant of the phone field that tests the pattern on the value as typed
phoneFieldAsTyped(v) ==
    IF v = Undefined \/ v = <<>> \/ phoneRegexTest(v)
    THEN [issues |-> <<>>, value |-> v]
    ELSE [issues |-> <<Issue("phone", "Please enter a valid phone number")>>,
          value |-> v]

\* phone: z.string().optional().refine((val) => !val || phoneRegex.test(val.replace(/\s/g, "")))
phoneField(v) ==
    IF v = Undefined \/ v = <<>> \/ phoneRegexTest(removeWhitespace(v))
    THEN [issues |-> <<>>, value |-> v]
    ELSE [issues |-> <<Issue("phone", "Please enter a valid phone number")>>,
          value |-> v]

\* message: z.string().min(1).max(1000).transform(sanitizeInput)
\*          .pipe(z.string().min(1).max(1000))
messageField(v) ==
    IF v = Undefined THEN [issues |-> <<Issue("message", "Required")>>, value |-> v]
    ELSE LET raw == minCheck("message", v, 1, "Message is required")
                    \o maxCheck("message", v, MessageMax, "Message is too long")
             out == sanitizeInput(v)
         IN  IF raw # <<>> THEN [issues |-> raw, value |-> v]
             ELSE [issues |-> minCheck("message", out, 1, "Message is required")
                              \o maxCheck("message", out, MessageMax, "Message is too long"),
                   value |-> out]

NoData == [name |-> Undefined, email |-> Undefined, phone |-> Undefined,
           message |-> Undefined]

\* a variant of safeParse that stops at the first field with an issue
safeParseFirstOnly(input) ==
    LET n == nameField(input.name)
        e == emailField(input.email)
        p == phoneField(input.phone)
        m == messageField(input.message)
        first == IF n.issues # <<>> THEN n.issues
                 ELSE IF e.issues # <<>> THEN e.issues
                 ELSE IF p.issues # <<>> THEN p.issues
                 ELSE m.issues
    IN  IF first = <<>>
        THEN [success |-> TRUE, issues |-> <<>>,
              data |-> [name |-> n.value, email |-> e.value, phone |-> p.value,
                        message |-> m.value]]
        ELSE [success |-> FALSE, issues |-> first, data |-> NoData]

\* leadSubmissionSchema.safeParse: z.object parses every key of its shape and
\* gathers the issues of all of them
safeParse(input) ==
    LET n == nameField(input.name)
        e == emailField(input.email)
        p == phoneField(input.phone)
        m == messageField(input.message)
        all == n.issues \o e.issues \o p.issues \o m.issues
    IN  IF all = <<>>
        THEN [success |-> TRUE, issues |-> <<>>,
              data |-> [name |-> n.value, email |-> e.value, phone |-> p.value,
                        message |-> m.value]]
        ELSE [success |-> FALSE, issues |-> all, data |-> NoData]

(***************************************************************************)
(* The inputs of the schema's specification.  A text field is built from a *)
(* core text, optionally wrapped in a tag pair, with blanks before it and  *)
(* line feeds after it, so that what sanitizing and trimming should give   *)
(* back (the core) is known from the construction.                         *)
(***************************************************************************)
PadMax == 1      \* most white space characters put on either side
LenSlack == 1    \* lengths are taken this far on both sides of a maximum

TagOpen == <<"<", "b", ">">>
TagClose == <<"<", "/", "b", ">">>

build(d) ==
    Repeat(" ", d.left)
    \o (IF d.wrap THEN TagOpen \o d.core \o TagClose ELSE d.core)
    \o Repeat("\n", d.right)

\* k empty tag pairs: markup and nothing else
markupOnly(k) == [i \in 1..(7 * k) |-> (TagOpen \o TagClose)[((i - 1) % 7) + 1]]

LengthsNear(max) == (max - LenSlack)..(max + LenSlack)

ShortCores == {<<"J", "o">>, <<"a", " ", "b">>, <<"A">>}
EntityCores == {<<"a", "&", "b">>, <<"a", ">", "b">>}
\* a run of ampersands short enough to pass as a name, whose entities are
\* longer than a name may be
AmpRun == Repeat("&", (NameMax \div Len(EntAmp)) + 1)
NameCores == ShortCores \cup EntityCores \cup {AmpRun}
             \cup {Repeat("A", n) : n \in LengthsNear(NameMax)}
MessageCores == ShortCores \cup EntityCores \cup {Repeat("A", n) : n \in LengthsNear(MessageMax)}
NameDescs == [core : NameCores, left : 0..PadMax, right : 0..PadMax, wrap : BOOLEAN]
MessageDescs == [core : MessageCores, left : 0..PadMax, right : 0..PadMax, wrap : BOOLEAN]

\* texts that hold nothing but white space or markup, short and over the maximum
BlankTexts(max) ==
    {Repeat(" ", n) : n \in {1, PadMax + 1, max + 1}}
    \cup {markupOnly(k) : k \in {1, 2, (max \div 7) + 1}}
    \cup {<<" ">> \o markupOnly(1) \o <<"\n">>}

NameInputs == {build(d) : d \in NameDescs} \cup BlankTexts(NameMax) \cup {<<>>, Undefined}
MessageInputs == {build(d) : d \in MessageDescs} \cup BlankTexts(MessageMax) \cup {<<>>, Undefined}

\* well-formed addresses, each with the lower-case text expected for it
EmailCases == {
    [in |-> <<"J", "O", "@", "B", ".", "C", "O">>, out |-> <<"j", "o", "@", "b", ".", "c", "o">>],
    [in |-> <<"j", "o", "@", "b", ".", "c", "o">>, out |-> <<"j", "o", "@", "b", ".", "c", "o">>],
    [in |-> <<"J", ".", "o", "+", "c", "@", "a", "b", "-", "c", ".", "C", "o">>, out |-> <<"j", ".", "o", "+", "c", "@", "a", "b", "-", "c", ".", "c", "o">>],
    [in |-> <<"o", "_", "1", "@", "b", ".", "a", "0", ".", "C", "O">>, out |-> <<"o", "_", "1", "@", "b", ".", "a", "0", ".", "c", "o">>]}
EmailDescs == [case : EmailCases, left : 0..PadMax, right : 0..PadMax]
buildEmail(d) == Repeat(" ", d.left) \o d.case.in \o Repeat("\n", d.right)
EmailTail == <<"@", "b", ".", "c", "o">>
\* addresses whose length is around the maximum
LongEmails == {Repeat("a", n - Len(EmailTail)) \o EmailTail : n \in LengthsNear(EmailMax)}
\* addresses with a carriage return or a line feed inside
NewlineEmails == {<<"j", "\n", "o", "@", "b", ".", "c", "o">>, <<"j", "o", "@", "b", ".", "c", "\r", "o">>, <<"j", "o", "\r", "\n", "@", "b", ".", "c", "o">>, <<" ", "j", "o", "@", "b", "\n", ".", "c", "o", " ">>, <<"j", "o", "@", "b", ".", "c", "o", "\n", "b", "c", "c", ":", "a", "@", "b", ".", "c", "o">>}
MalformedEmails == {<<"j", "o">>, <<"j", "o", "@", "b">>, <<"<", "b", ">", "@", "b", ".", "c", "o">>, <<"j", "o", "@", "@", "b", ".", "c", "o">>, <<".", "j", "o", "@", "b", ".", "c", "o">>, <<"j", ".", ".", "o", "@", "b", ".", "c", "o">>, <<"j", "o", "@", "b", ".", "c", "o", ".">>, <<"j", " ", "o", "@", "b", ".", "c", "o">>, <<"@", "b", ".", "c", "o">>, <<"j", "o", ".", "@", "b", ".", "c", "o">>, <<>>}
EmailInputs == {buildEmail(d) : d \in EmailDescs} \cup LongEmails \cup NewlineEmails
               \cup MalformedEmails \cup {Undefined}

PhoneInputs == {
    <<"(", "5", "5", "5", ")", " ", "1", "2", "3", "-", "4", "5", "6", "7">>,
    <<"5", "5", "5", "-", "1", "2", "3", "-", "4", "5", "6", "7">>,
    <<"5", "5", "5", " ", "1", "2", "3", " ", "4", "5", "6", "7">>,
    <<"5", "5", "5", "1", "2", "3", "4", "5", "6", "7">>,
    <<"5", "5", "5", "-", "1", "2", "3">>,
    <<"+", "1", "-", "5", "5", "5", "-", "1", "2", "3", "-", "4", "5", "6", "-", "7", "8", "9", "0">>,
    <<"+", "(", "5", "5", "5", ")", "1", "2", "3", ".", "4", "5", "6", "7", "8", "9">>,
    <<"5", "5", "5", ".", "1", "2", "3", ".", "4", "5", "6", "7", "8">>,
    <<"5", "5", "5", "1", "2", "3", "4", "5", "6", "7", "8", "9", "0">>,
    <<"5", "5", "5", "1", "2", "3", "4", "5", "6">>,
    <<"5", "5", "5", "-", "-", "1", "2", "3", "-", "4", "5", "6", "7">>,
    <<"5", "5", "5", "\n", "1", "2", "3", "\t", "4", "5", "6", "7">>,
    <<"(", "5", "5", "5", " ", "1", "2", "3", " ", "4", "5", "6", "7">>,
    <<"5", "5", "5", ")", "1", "2", "3", "-", "4", "5", "6", "7">>,
    <<"+", "5", "5", "5", " ", "1", "2", "3", " ", "4", "5", "6", "7", " ">>,
    <<" ">>,
    <<"a", "5", "5", "5", "-", "1", "2", "3", "-", "4", "5", "6", "7">>,
    <<"5", "5", "5", "-", "1", "2", "3", "-", "4", "5", "6", "7", "a">>,
    <<>>, Undefined}

\* one plainly valid and one plainly invalid value of each field, for the
\* fields a family of inputs does not vary
ValidName == <<"J", "o">>
ValidEmail == <<"j", "o", "@", "b", ".", "c", "o">>
ValidMessage == <<"a", " ", "b">>
CoreNames == {ValidName, <<>>}
CoreEmails == {ValidEmail, <<"j", "o">>}
CorePhones == {Undefined, <<"5", "5", "5", "-", "1", "2", "3">>}
CoreMessages == {ValidMessage, Undefined}

Leads ==
    [name : NameInputs, email : CoreEmails, phone : CorePhones, message : CoreMessages]
    \cup [name : CoreNames, email : EmailInputs, phone : CorePhones, message : CoreMessages]
    \cup [name : CoreNames, email : CoreEmails, phone : PhoneInputs, message : CoreMessages]
    \cup [name : CoreNames, email : CoreEmails, phone : CorePhones, message : MessageInputs]

NotParsed == [success |-> FALSE, issues |-> <<>>, data |-> NoData]

(***************************************************************************)
(* Browser storage behind safeLocalStorage, and the conversions between a  *)
(* step number and the stored text                                         *)
(***************************************************************************)
Null == <<"null">>     \* localStorage.getItem's answer for an absent key

\* "ok": localStorage works.  "unavailable": window.localStorage is missing.
\* "denied": every access throws a DOMException that is no QuotaExceededError.
\* "quota": setItem throws QuotaExceededError until the key has been removed,
\*          and the retry after the removal may succeed or throw again.
StorageModes == {"ok", "unavailable", "denied", "quota"}

\* safeLocalStorage.getItem(SETUP_STORAGE_KEY)
getItem == IF storageMode \in {"unavailable", "denied"} THEN Null ELSE stored

\* safeLocalStorage.setItem(SETUP_STORAGE_KEY, value): the outcomes it can have,
\* each the value left in storage and the boolean returned
setItem(value) ==
    CASE storageMode = "ok" -> {[stored |-> value, ok |-> TRUE]}
      [] storageMode = "quota" -> {[stored |-> value, ok |-> TRUE],
                                   [stored |-> Null, ok |-> FALSE]}
      [] OTHER -> {[stored |-> stored, ok |-> FALSE]}

\* safeLocalStorage.removeItem(SETUP_STORAGE_KEY), applied to storage holding cur
removeItem(cur) == IF storageMode \in {"ok", "quota"} THEN Null ELSE cur

DigitChars == <<"0", "1", "2", "3", "4", "5", "6", "7", "8", "9">>
digitValue(c) == (CHOOSE k \in 1..10 : DigitChars[k] = c) - 1

\* Number.prototype.toString of a non-negative integer
RECURSIVE toString(_)
toString(n) ==
    IF n < 10 THEN <<DigitChars[n + 1]>>
    ELSE toString(n \div 10) \o <<DigitChars[(n % 10) + 1]>>

\* the value of the digits of s from position i on, up to the first non-digit
RECURSIVE digitsValue(_, _, _)
digitsValue(s, i, acc) ==
    IF i > Len(s) \/ s[i] \notin Digits THEN acc
    ELSE digitsValue(s, i + 1, acc * 10 + digitValue(s[i]))

\* parseInt(s, 10): leading white space is skipped, one sign is read, then
\* the digits up to the first character that is no digit; NaN without a digit
parseInt(s) ==
    LET blanks == CHOOSE k \in 0..Len(s) :
                      /\ \A i \in 1..k : s[i] \in WhiteSpace
                      /\ (k = Len(s) \/ s[k + 1] \notin WhiteSpace)
        signed == blanks < Len(s) /\ s[blanks + 1] \in {"+", "-"}
        from == IF signed THEN blanks + 2 ELSE blanks + 1
        magnitude == digitsValue(s, from, 0)
    IN  IF from > Len(s) \/ s[from] \notin Digits THEN [nan |-> TRUE, value |-> 0]
        ELSE [nan |-> FALSE,
              value |-> IF signed /\ s[blanks + 1] = "-" THEN 0 - magnitude ELSE magnitude]

FirstStep == 1
RestoreMax == 9       \* the largest stored step the initialiser accepts
OAuthStep == 8
SlackStep == 9
\* TOTAL_STEPS = notificationPreferences.wantsSlack ? 10 : 9
TOTAL_STEPS(slack) == IF slack THEN 10 ELSE 9

\* a variant of the initialiser that accepts every step up to the largest total
restoreStepUpToTotal ==
    LET saved == getItem
        savedStep == parseInt(saved)
    IN  IF saved # Null /\ saved # <<>>
           /\ ~savedStep.nan /\ savedStep.value >= 1
           /\ savedStep.value <= TOTAL_STEPS(TRUE)
        THEN savedStep.value
        ELSE FirstStep

\* the initialiser of useState(step)
restoreStep ==
    LET saved == getItem
        savedStep == parseInt(saved)
    IN  IF saved # Null /\ saved # <<>>
           /\ ~savedStep.nan /\ savedStep.value >= 1 /\ savedStep.value <= RestoreMax
        THEN savedStep.value
        ELSE FirstStep

\* what storage may hold when the page is opened: nothing, a step written by
\* an earlier session, or a text that something else left under the key
StoredInputs ==
    {Null, <<>>} \cup {toString(n) : n \in 0..(TOTAL_STEPS(TRUE) + 1)}
    \cup {<<"9", "9">>, <<"a", "b", "c">>, <<"3", "a", "b", "c">>, <<" ", "7">>, <<"-", "1">>, <<"+", "4">>, <<"0", "5">>}

(***************************************************************************)
(* The setup wizard (SetupWizard).  A handler runs only when the effects   *)
(* of the last commit have run: React runs them before it handles the next *)
(* event.  Unloading the page needs no handler and can happen at any time. *)
(***************************************************************************)
MaxInFlight == 1     \* requests and timers a handler started that are outstanding at once

Idle == [status |-> "idle", step |-> 0]
CredsIdle == [status |-> "idle", from |-> "none"]

\* a variant of the short-circuit that does not look at restartSetup
CardShownWheneverConfigured == configured = "true"

\* the component renders SetupCompleteCard instead of the step views
CardShown == configured = "true" /\ ~restartSetup

Ready == page = "mounted" /\ effects = {}

\* step 9 renders the Slack setup view when notificationPreferences.wantsSlack
SlackSetupShown == page = "mounted" /\ ~CardShown /\ step = SlackStep /\ wantsSlack

\* step === (wantsSlack ? 10 : 9) && <CompletionStep />
CompletionShown == page = "mounted" /\ ~CardShown /\ step = TOTAL_STEPS(wantsSlack)
StepView(k) == Ready /\ ~CardShown /\ step = k

\* what useQuery holds for a query key it switches to: nothing, or a status
\* that an earlier response left in the cache
CachedStatus ==
    {"undefined"} \cup (IF seenTrue THEN {"true"} ELSE {})
                  \cup (IF seenFalse THEN {"false"} ELSE {})

\* setStep(s), with `pending` the effects already scheduled.  A new step
\* re-renders, switches the status query to the key ["setup-status", s] and
\* schedules the save effect, and the clear effect when what
\* setupStatus?.configured evaluates to changes with the key
setStep(s, pending) ==
    IF s = step
    THEN /\ effects' = pending
         /\ UNCHANGED <<step, configured, fetching, polling, oldFetches>>
    ELSE /\ step' = s
         /\ \E c \in CachedStatus :
                /\ configured' = c
                /\ fetching' \in (IF c = "undefined" THEN {TRUE} ELSE BOOLEAN)
                /\ polling' = FALSE
                /\ effects' = pending \cup {"save"}
                              \cup (IF c # configured THEN {"clear"} ELSE {})
         /\ oldFetches' = (oldFetches \/ fetching)

\* the page is opened or reopened: every useState initialiser runs, the
\* query client starts empty, and the first commit schedules all effects
Mount ==
    /\ page = "loading"
    /\ page' = "mounted"
    /\ step' = restoreStep
    /\ restartSetup' = FALSE
    /\ wantsSlack' = FALSE
    /\ configured' = "undefined"
    /\ fetching' = TRUE
    /\ polling' = FALSE
    /\ oldFetches' = FALSE
    /\ seenTrue' = FALSE
    /\ seenFalse' = FALSE
    /\ isRateLimited' = FALSE
    /\ effects' = {"save", "clear", "oauth"}
    /\ oauthTimer' = FALSE
    /\ branding' = Idle
    /\ credentials' = CredsIdle
    /\ slackWait' = FALSE
    /\ validate' = Idle
    /\ cardReset' = FALSE
    /\ intact' = FALSE
    /\ UNCHANGED <<stored, storageMode, serverConfigured, urlParam>>

\* a variant of the save effect that writes nothing
saveStepEffectIdle(pending) == {stored}

\* the save effect: safeLocalStorage.setItem(SETUP_STORAGE_KEY, step.toString())
saveStepEffect(pending) ==
    IF "save" \in pending THEN {o.stored : o \in setItem(toString(step))}
    ELSE {stored}

\* the clear effect: if (setupStatus?.configured) removeItem(SETUP_STORAGE_KEY)
clearProgressEffect(pending, cur) ==
    IF "clear" \in pending /\ configured = "true" THEN removeItem(cur) ELSE cur

\* the effects of the last commit, in the order the component declares them:
\* save the step, clear the progress when configured, and on mount look at
\* the query string of the OAuth redirect
RunEffects ==
    /\ page = "mounted"
    /\ effects # {}
    /\ \E saved \in saveStepEffect(effects) :
           stored' = clearProgressEffect(effects, saved)
    /\ IF "oauth" \in effects /\ urlParam = "success"
       THEN /\ oauthTimer' = TRUE
            /\ urlParam' = "none"
            /\ effects' = {}
            /\ UNCHANGED <<step, configured, fetching, polling, oldFetches>>
       ELSE IF "oauth" \in effects /\ urlParam = "error"
       THEN /\ setStep(OAuthStep, {})
            /\ urlParam' = "none"
            /\ UNCHANGED oauthTimer
       ELSE /\ effects' = {}
            /\ UNCHANGED <<step, configured, fetching, polling, oldFetches, urlParam, oauthTimer>>
    /\ UNCHANGED <<page, storageMode, wantsSlack, restartSetup, seenTrue, seenFalse, isRateLimited,
                   serverConfigured, branding, credentials, slackWait, validate,
                   cardReset, intact>>

\* the variables no step change touches
aside == <<page, stored, storageMode, wantsSlack, restartSetup, seenTrue, seenFalse, isRateLimited,
           serverConfigured, urlParam, oauthTimer, branding, credentials, slackWait,
           validate, cardReset, intact>>

\* ---- the setup-status query
statusText(b) == IF b THEN "true" ELSE "false"

\* queryFn's calls of setIsRateLimited: true on HTTP 429, false on a
\* successful response, none when it throws
rateLimitedAfter(outcome) ==
    CASE outcome = "ok" -> FALSE
      [] outcome = "limited" -> TRUE
      [] OTHER -> isRateLimited

\* queryFn settles for the current key: a status from the server, the default
\* status { configured: false } on HTTP 429, or an error that leaves the data
StatusResponse ==
    /\ Ready
    /\ fetching
    /\ \E outcome \in {"ok", "limited", "failed"} :
           LET data == CASE outcome = "ok" -> statusText(serverConfigured)
                         [] outcome = "limited" -> "false"
                         [] OTHER -> configured
           IN  /\ configured' = data
               /\ seenTrue' = (seenTrue \/ (outcome # "failed" /\ data = "true"))
               /\ seenFalse' = (seenFalse \/ (outcome # "failed" /\ data = "false"))
               /\ effects' = IF data # configured THEN {"clear"} ELSE {}
               /\ isRateLimited' = rateLimitedAfter(outcome)
    /\ fetching' = FALSE
    /\ polling' = FALSE
    /\ UNCHANGED <<page, step, stored, storageMode, wantsSlack, restartSetup, oldFetches,
                   serverConfigured, urlParam, oauthTimer, branding, credentials,
                   slackWait, validate, cardReset, intact>>

\* queryFn settles for the key of a step the wizard has left: the cache keeps
\* the status; more such requests may remain
OldStatusResponse ==
    /\ Ready
    /\ oldFetches
    /\ oldFetches' \in BOOLEAN
    /\ \E outcome \in {"ok", "limited", "failed"} :
           /\ seenTrue' = (seenTrue \/ (outcome = "ok" /\ serverConfigured))
           /\ seenFalse' = (seenFalse \/ outcome = "limited"
                                      \/ (outcome = "ok" /\ ~serverConfigured))
           /\ isRateLimited' = rateLimitedAfter(outcome)
    /\ UNCHANGED <<page, step, stored, storageMode, wantsSlack, restartSetup, configured,
                   fetching, polling, serverConfigured, effects, urlParam, oauthTimer, branding,
                   credentials, slackWait, validate, cardReset, intact>>

\* a variant of refetchInterval that does not look at isRateLimited
refetchIntervalIgnoringLimit ==
    IF configured = "true" THEN FALSE
    ELSE step = OAuthStep

\* a variant of refetchInterval that polls on every step
refetchIntervalAnyStep ==
    IF configured = "true" THEN FALSE
    ELSE ~isRateLimited

\* refetchInterval: the interval in force for the current key, if any
refetchInterval ==
    IF configured = "true" THEN FALSE
    ELSE step = OAuthStep /\ ~isRateLimited

\* the interval elapses and the current key is fetched again
StatusPoll ==
    /\ Ready
    /\ refetchInterval
    /\ ~fetching
    /\ fetching' = TRUE
    /\ polling' = TRUE
    /\ UNCHANGED <<page, step, stored, storageMode, wantsSlack, restartSetup, configured,
                   oldFetches, seenTrue, seenFalse, isRateLimited, serverConfigured,
                   effects, urlParam, oauthTimer, branding, credentials, slackWait,
                   validate, cardReset, intact>>

\* the current key is fetched again for another reason: a handler called
\* refetchStatus (the onSuccess handlers and the Slack handler await it before
\* they set the step; a refetch that fails leaves the data as it was), the
\* queries were invalidated, or the network came back
StatusRefetch ==
    /\ Ready
    /\ ~fetching
    /\ fetching' = TRUE
    /\ polling' = FALSE
    /\ UNCHANGED <<page, step, stored, storageMode, wantsSlack, restartSetup, configured,
                   oldFetches, seenTrue, seenFalse, isRateLimited, serverConfigured, effects, urlParam,
                   oauthTimer, branding, credentials, slackWait, validate, cardReset,
                   intact>>

\* the mutations, the card's reset request and the redirect timer that are
\* outstanding
InFlight ==
    (IF branding.status # "idle" THEN 1 ELSE 0)
    + (IF credentials.status # "idle" \/ slackWait THEN 1 ELSE 0)
    + (IF validate.status # "idle" THEN 1 ELSE 0)
    + (IF cardReset THEN 1 ELSE 0)
    + (IF oauthTimer THEN 1 ELSE 0)

\* ---- navigation
\* WelcomeStep onNext, the Continue buttons of steps 5 and 6
Forward ==
    /\ \E k \in {1, 5, 6} : StepView(k)
    /\ setStep(step + 1, {})
    /\ UNCHANGED aside

\* the Back buttons of steps 2 to 9
Back ==
    /\ \E k \in 2..SlackStep : StepView(k)
    /\ setStep(step - 1, {})
    /\ UNCHANGED aside

\* the Slack switch of the Notifications step
ToggleSlack ==
    /\ StepView(5)
    /\ wantsSlack' = ~wantsSlack
    /\ UNCHANGED <<page, step, stored, storageMode, restartSetup, configured, fetching, polling,
                   oldFetches, seenTrue, seenFalse, isRateLimited, serverConfigured, effects, urlParam,
                   oauthTimer, branding, credentials, slackWait, validate, cardReset,
                   intact>>

\* ---- saveBrandingMutation (steps 2, 3 and 4)
\* Continue: saveBrandingMutation.mutate(...), disabled while it is pending
BrandingContinue ==
    /\ \E k \in 2..4 : StepView(k)
    /\ branding.status = "idle"
    /\ InFlight < MaxInFlight
    /\ branding' = [status |-> "pending", step |-> 0]
    /\ UNCHANGED <<page, step, stored, storageMode, wantsSlack, restartSetup, configured,
                   fetching, polling, oldFetches, seenTrue, seenFalse, isRateLimited, serverConfigured, effects,
                   urlParam, oauthTimer, credentials, slackWait, validate, cardReset,
                   intact>>

\* the request settles.  On success onSuccess starts, with the step of the
\* render current at that moment (0 stands for a step it does not test for),
\* and awaits the invalidation of the app-config query; on failure onError
\* only logs
BrandingResponse ==
    /\ Ready
    /\ branding.status = "pending"
    /\ \/ branding' = [status |-> "settling", step |-> IF step \in 2..4 THEN step ELSE 0]
       \/ branding' = Idle
    /\ UNCHANGED <<page, step, stored, storageMode, wantsSlack, restartSetup, configured,
                   fetching, polling, oldFetches, seenTrue, seenFalse, isRateLimited, serverConfigured, effects,
                   urlParam, oauthTimer, credentials, slackWait, validate, cardReset,
                   intact>>

\* onSuccess resumes: if (step === 2) setStep(3) else if (step === 3) ...
BrandingSettled ==
    /\ Ready
    /\ branding.status = "settling"
    /\ branding' = Idle
    /\ IF branding.step \in 2..4 THEN setStep(branding.step + 1, {})
       ELSE UNCHANGED <<step, configured, fetching, polling, oldFetches, effects>>
    /\ UNCHANGED <<page, stored, storageMode, wantsSlack, restartSetup, seenTrue,
                   seenFalse, isRateLimited, serverConfigured, urlParam, oauthTimer, credentials,
                   slackWait, validate, cardReset, intact>>

\* ---- saveCredentialsMutation (step 7, and the Slack view of step 9)
\* Save & Continue on step 7: saveCredentialsMutation.mutate(credsToSave)
CredentialsSave ==
    /\ StepView(7)
    /\ credentials.status = "idle"
    /\ InFlight < MaxInFlight
    /\ credentials' = [status |-> "pending", from |-> "step7"]
    /\ UNCHANGED <<page, step, stored, storageMode, wantsSlack, restartSetup, configured,
                   fetching, polling, oldFetches, seenTrue, seenFalse, isRateLimited, serverConfigured, effects,
                   urlParam, oauthTimer, branding, slackWait, validate, cardReset, intact>>

\* Complete Setup on the Slack view: await saveCredentialsMutation.mutateAsync(...)
SlackComplete ==
    /\ StepView(SlackStep)
    /\ wantsSlack
    /\ credentials.status = "idle"
    /\ InFlight < MaxInFlight
    /\ credentials' = [status |-> "pending", from |-> "slack"]
    /\ UNCHANGED <<page, step, stored, storageMode, wantsSlack, restartSetup, configured,
                   fetching, polling, oldFetches, seenTrue, seenFalse, isRateLimited, serverConfigured, effects,
                   urlParam, oauthTimer, branding, slackWait, validate, cardReset, intact>>

\* a handler that never waits for the mutation's onSuccess
mutateAsyncResolvesAtResponse(from, phase) == from = "slack" /\ phase = "response"

\* await saveCredentialsMutation.mutateAsync(credsToSave) in the Slack handler:
\* the promise resolves once the mutation's own onSuccess has returned, not
\* when the response arrives
mutateAsyncResolves(from, phase) == from = "slack" /\ phase = "onSuccess"

\* the request settles: on success onSuccess starts (it awaits the
\* invalidation, 500 ms and refetchStatus) and the backend may now report the
\* setup as configured; on failure the mutation and mutateAsync reject
CredentialsResponse ==
    /\ Ready
    /\ credentials.status = "pending"
    /\ \/ /\ credentials' = [credentials EXCEPT !.status = "settling"]
          /\ serverConfigured' \in {serverConfigured, TRUE}
          /\ slackWait' = (slackWait \/ mutateAsyncResolves(credentials.from, "response"))
       \/ /\ credentials' = CredsIdle
          /\ UNCHANGED <<serverConfigured, slackWait>>
    /\ UNCHANGED <<page, step, stored, storageMode, wantsSlack, restartSetup, configured,
                   fetching, polling, oldFetches, seenTrue, seenFalse, isRateLimited, effects, urlParam,
                   oauthTimer, branding, validate, cardReset, intact>>

\* onSuccess ends with setStep(8); then mutateAsync resolves and the Slack
\* handler, if it started the save, goes on to await refetchStatus
CredentialsSettled ==
    /\ Ready
    /\ credentials.status = "settling"
    /\ credentials' = CredsIdle
    /\ slackWait' = (slackWait \/ mutateAsyncResolves(credentials.from, "onSuccess"))
    /\ setStep(OAuthStep, {})
    /\ UNCHANGED <<page, stored, storageMode, wantsSlack, restartSetup, seenTrue,
                   seenFalse, isRateLimited, serverConfigured, urlParam, oauthTimer, branding, validate,
                   cardReset, intact>>

\* the Slack handler resumes: setStep(notificationPreferences.wantsSlack ? 10 : 9),
\* with the preferences of the render it was clicked in, where the Slack view
\* was shown
SlackFinish ==
    /\ Ready
    /\ slackWait
    /\ slackWait' = FALSE
    /\ setStep(TOTAL_STEPS(TRUE), {})
    /\ UNCHANGED <<page, stored, storageMode, wantsSlack, restartSetup, seenTrue,
                   seenFalse, isRateLimited, serverConfigured, urlParam, oauthTimer, branding,
                   credentials, validate, cardReset, intact>>

\* ---- validateMutation (the OAuth step)
\* Test Connection: validateMutation.mutate(), disabled while it is pending
ValidateTest ==
    /\ StepView(OAuthStep)
    /\ validate.status = "idle"
    /\ InFlight < MaxInFlight
    /\ validate' = [status |-> "pending", step |-> 0]
    /\ UNCHANGED <<page, step, stored, storageMode, wantsSlack, restartSetup, configured,
                   fetching, polling, oldFetches, seenTrue, seenFalse, isRateLimited, serverConfigured, effects,
                   urlParam, oauthTimer, branding, credentials, slackWait, cardReset,
                   intact>>

\* the request settles: with data.valid, onSuccess starts with the step of the
\* current render and awaits 1 s and refetchStatus; otherwise nothing follows
ValidateResponse ==
    /\ Ready
    /\ validate.status = "pending"
    /\ \/ validate' = [status |-> "settling", step |-> IF step = OAuthStep THEN step ELSE 0]
       \/ validate' = Idle
    /\ UNCHANGED <<page, step, stored, storageMode, wantsSlack, restartSetup, configured,
                   fetching, polling, oldFetches, seenTrue, seenFalse, isRateLimited, serverConfigured, effects,
                   urlParam, oauthTimer, branding, credentials, slackWait, cardReset,
                   intact>>

\* onSuccess resumes: if (step === 8) setStep(wantsSlack ? 9 : 9)
ValidateSettled ==
    /\ Ready
    /\ validate.status = "settling"
    /\ validate' = Idle
    /\ IF validate.step = OAuthStep THEN setStep(SlackStep, {})
       ELSE UNCHANGED <<step, configured, fetching, polling, oldFetches, effects>>
    /\ UNCHANGED <<page, stored, storageMode, wantsSlack, restartSetup, seenTrue,
                   seenFalse, isRateLimited, serverConfigured, urlParam, oauthTimer, branding,
                   credentials, slackWait, cardReset, intact>>

\* the timer of the OAuth redirect effect: validateMutation.mutate(); setStep(9)
OAuthTimerFires ==
    /\ Ready
    /\ oauthTimer
    /\ oauthTimer' = FALSE
    /\ validate' = [status |-> "pending", step |-> 0]
    /\ setStep(SlackStep, {})
    /\ UNCHANGED <<page, stored, storageMode, wantsSlack, restartSetup, seenTrue,
                   seenFalse, isRateLimited, serverConfigured, urlParam, branding, credentials,
                   slackWait, cardReset, intact>>

\* ---- SetupCompleteCard
\* Edit Configuration: setRestartSetup(true); setStep(1)
EditConfiguration ==
    /\ Ready
    /\ CardShown
    /\ restartSetup' = TRUE
    /\ setStep(FirstStep, {})
    /\ UNCHANGED <<page, stored, storageMode, wantsSlack, seenTrue, seenFalse, isRateLimited,
                   serverConfigured, urlParam, oauthTimer, branding, credentials,
                   slackWait, validate, cardReset, intact>>

\* Reset & Start Over: handleReset sends DELETE /api/v1/setup/credentials
CardResetClick ==
    /\ Ready
    /\ CardShown
    /\ ~cardReset
    /\ InFlight < MaxInFlight
    /\ cardReset' = TRUE
    /\ UNCHANGED <<page, step, stored, storageMode, wantsSlack, restartSetup, configured,
                   fetching, polling, oldFetches, seenTrue, seenFalse, isRateLimited, serverConfigured, effects,
                   urlParam, oauthTimer, branding, credentials, slackWait, validate,
                   intact>>

\* handleReset resumes.  With data.success: removeItem(SETUP_STORAGE_KEY), then
\* onRestart (setStep(1); setRestartSetup(true)); otherwise an alert
CardResetResponse ==
    /\ Ready
    /\ cardReset
    /\ cardReset' = FALSE
    /\ \/ /\ serverConfigured' = FALSE
          /\ stored' = removeItem(stored)
          /\ restartSetup' = TRUE
          /\ setStep(FirstStep, {})
       \/ UNCHANGED <<serverConfigured, stored, restartSetup, step, configured, fetching, polling,
                      oldFetches, effects>>
    /\ UNCHANGED <<page, storageMode, wantsSlack, seenTrue, seenFalse, isRateLimited, urlParam,
                   oauthTimer, branding, credentials, slackWait, validate, intact>>

\* ---- leaving the page
\* the in-memory state is gone; `step` keeps the step that was shown
unload(isIntact) ==
    /\ page' = "loading"
    /\ intact' = isIntact
    /\ wantsSlack' = FALSE
    /\ restartSetup' = FALSE
    /\ configured' = "undefined"
    /\ fetching' = FALSE
    /\ polling' = FALSE
    /\ oldFetches' = FALSE
    /\ seenTrue' = FALSE
    /\ seenFalse' = FALSE
    /\ isRateLimited' = FALSE
    /\ effects' = {}
    /\ oauthTimer' = FALSE
    /\ branding' = Idle
    /\ credentials' = CredsIdle
    /\ slackWait' = FALSE
    /\ validate' = Idle
    /\ cardReset' = FALSE
    /\ UNCHANGED <<step, storageMode>>

\* the wizard is at rest, storage works, and no status has reported the setup
\* as configured
Intact == effects = {} /\ storageMode = "ok" /\ ~seenTrue /\ ~serverConfigured

\* the user reloads the page, or leaves it and comes back
Reload ==
    /\ page = "mounted"
    /\ unload(Intact)
    /\ UNCHANGED <<stored, serverConfigured, urlParam>>

\* Authorize with Google: the browser goes to /api/v1/oauth/authorize and
\* comes back to /setup with ?success=true or ?error=...
AuthorizeWithGoogle ==
    /\ StepView(OAuthStep)
    /\ unload(Intact)
    /\ \/ urlParam' = "success" /\ serverConfigured' \in {serverConfigured, TRUE}
       \/ urlParam' = "error" /\ UNCHANGED serverConfigured
    /\ UNCHANGED stored

\* Reset on the completion view of step 9: after a successful DELETE,
\* removeItem(SETUP_STORAGE_KEY) and window.location.reload()
WizardReset ==
    /\ StepView(SlackStep)
    /\ ~wantsSlack
    /\ unload(FALSE)
    /\ stored' = removeItem(stored)
    /\ serverConfigured' = FALSE
    /\ UNCHANGED urlParam

(***************************************************************************)
(* The application configuration query (useAppConfig)                      *)
(***************************************************************************)
\* String.prototype.includes
includes(s, w) == \E i \in 1..(Len(s) - Len(w) + 1) : SubSeq(s, i, i + Len(w) - 1) = w

\* the words the code looks for
WordFetch == <<"f", "e", "t", "c", "h">>
WordCancelled == <<"c", "a", "n", "c", "e", "l", "l", "e", "d">>
WordNetwork == <<"n", "e", "t", "w", "o", "r", "k">>
WordTimeout == <<"t", "i", "m", "e", "o", "u", "t">>
Word500 == <<"5", "0", "0">>
Word502 == <<"5", "0", "2">>
Word503 == <<"5", "0", "3">>

\* messages of the TypeError a failed fetch rejects with, by browser engine
NetworkMessages == {<<"F", "a", "i", "l", "e", "d", " ", "t", "o", " ", "f", "e", "t", "c", "h">>,
                    <<"N", "e", "t", "w", "o", "r", "k", "E", "r", "r", "o", "r", " ", "w", "h", "e", "n", " ", "a", "t", "t", "e", "m", "p", "t", "i", "n", "g", " ", "t", "o", " ", "f", "e", "t", "c", "h", " ", "r", "e", "s", "o", "u", "r", "c", "e", ".">>,
                    <<"L", "o", "a", "d", " ", "f", "a", "i", "l", "e", "d">>}
AbortMessage == <<"T", "h", "e", " ", "o", "p", "e", "r", "a", "t", "i", "o", "n", " ", "w", "a", "s", " ", "a", "b", "o", "r", "t", "e", "d", ".">>
SyntaxMessage == <<"U", "n", "e", "x", "p", "e", "c", "t", "e", "d", " ", "t", "o", "k", "e", "n", " ", "<", " ", "i", "n", " ", "J", "S", "O", "N", " ", "a", "t", " ", "p", "o", "s", "i", "t", "i", "o", "n", " ", "0">>
CancelledMessage == <<"R", "e", "q", "u", "e", "s", "t", " ", "w", "a", "s", " ", "c", "a", "n", "c", "e", "l", "l", "e", "d">>

\* HTTP statuses the endpoint may answer with, and their reason phrases
ConfigStatuses == {200, 400, 401, 404, 408, 429, 500, 502, 503}
\* Response.ok
ok(status) == status \in 200..299
reasonPhrase(status) ==
    CASE status = 200 -> <<"O", "K">>
      [] status = 400 -> <<"B", "a", "d", " ", "R", "e", "q", "u", "e", "s", "t">>
      [] status = 401 -> <<"U", "n", "a", "u", "t", "h", "o", "r", "i", "z", "e", "d">>
      [] status = 429 -> <<"T", "o", "o", " ", "M", "a", "n", "y", " ", "R", "e", "q", "u", "e", "s", "t", "s">>
      [] status = 403 -> <<"F", "o", "r", "b", "i", "d", "d", "e", "n">>
      [] status = 412 -> <<"P", "r", "e", "c", "o", "n", "d", "i", "t", "i", "o", "n", " ", "F", "a", "i", "l", "e", "d">>
      [] status = 404 -> <<"N", "o", "t", " ", "F", "o", "u", "n", "d">>
      [] status = 408 -> <<"R", "e", "q", "u", "e", "s", "t", " ", "T", "i", "m", "e", "o", "u", "t">>
      [] status = 500 -> <<"I", "n", "t", "e", "r", "n", "a", "l", " ", "S", "e", "r", "v", "e", "r", " ", "E", "r", "r", "o", "r">>
      [] status = 502 -> <<"B", "a", "d", " ", "G", "a", "t", "e", "w", "a", "y">>
      [] status = 503 -> <<"S", "e", "r", "v", "i", "c", "e", " ", "U", "n", "a", "v", "a", "i", "l", "a", "b", "l", "e">>
\* `Failed to load configuration: ${res.status} ${res.statusText}`
httpErrorMessage(status) ==
    <<"F", "a", "i", "l", "e", "d", " ", "t", "o", " ", "l", "o", "a", "d", " ", "c", "o", "n", "f", "i", "g", "u", "r", "a", "t", "i", "o", "n", ":", " ">> \o toString(status)
        \o <<" ">> \o reasonPhrase(status)

\* a JSON value under a key of the response: the key is missing, or holds
\* null, a falsy value other than null, or an object
FieldValues == {"absent", "null", "empty", "value"}

\* response bodies: not JSON; the JSON values null, a number, a string; an
\* array; an object with any combination under branding and content
ConfigBodies ==
    {[kind |-> k, branding |-> "absent", content |-> "absent"] :
         k \in {"malformed", "null", "number", "string", "array"}}
    \cup {[kind |-> "object", branding |-> b, content |-> c] :
              b \in FieldValues, c \in FieldValues}

\* what the network does to one attempt: fetch rejects (no connection), the
\* 10 s timer aborts it, React Query's signal aborts it, or a response
\* arrives, after which the signal may still abort before the body is used
ConfigTransports ==
    {[kind |-> "networkError", message |-> m, status |-> 0, body |-> "none"] :
         m \in NetworkMessages}
    \cup {[kind |-> k, message |-> AbortMessage, status |-> 0, body |-> "none"] :
              k \in {"timeout", "cancelled"}}
    \cup {[kind |-> "cancelledLate", message |-> CancelledMessage, status |-> st, body |-> "none"] :
              st \in ConfigStatuses}
    \cup {[kind |-> "response", message |-> <<>>, status |-> st, body |-> "none"] :
              st \in {c \in ConfigStatuses : ~ok(c)}}
    \cup {[kind |-> "response", message |-> <<>>, status |-> st, body |-> b] :
              st \in {c \in ConfigStatuses : ok(c)}, b \in ConfigBodies}
NoTransport == [kind |-> "none", message |-> <<>>, status |-> 0, body |-> "none"]

\* DEFAULT_CONFIG, and a config object by where its branding and content come
\* from: "default", or what the response held
DEFAULT_CONFIG == [branding |-> "default", content |-> "default"]
Resolved(config) == [kind |-> "resolved", config |-> config, message |-> <<>>]
Rejected(error) == [kind |-> "rejected", config |-> DEFAULT_CONFIG, message |-> error.message]
NoResult == [kind |-> "none", config |-> DEFAULT_CONFIG, message |-> <<>>]
Error(name, message) == [name |-> name, message |-> message]

\* { ...DEFAULT_CONFIG, ...data }: a key of data, whatever it holds, replaces
\* the default
spreadOverDefault(data) ==
    [branding |-> IF data.branding = "absent" THEN "default" ELSE data.branding,
     content |-> IF data.content = "absent" THEN "default" ELSE data.content]

\* variants of the catch block that rethrow: everything, and errors of HTTP
\* answers only
catchErrorRethrow(error, aborted) == Rejected(error)
catchErrorRethrowHttp(error, aborted) ==
    IF error.name = "Error" /\ ~includes(error.message, WordCancelled)
    THEN Rejected(error)
    ELSE Resolved(DEFAULT_CONFIG)

\* the catch block of queryFn; `aborted` is signal?.aborted ||
\* controller.signal.aborted.  Every branch returns DEFAULT_CONFIG
catchError(error, aborted) ==
    IF error.name = "AbortError" /\ aborted THEN Resolved(DEFAULT_CONFIG)
    ELSE IF error.name = "AbortError" THEN Resolved(DEFAULT_CONFIG)
    ELSE IF includes(error.message, WordFetch) \/ includes(error.message, WordCancelled)
         THEN Resolved(DEFAULT_CONFIG)
    ELSE Resolved(DEFAULT_CONFIG)

\* the validation of a parsed body: !data || typeof data !== 'object', then
\* !data.branding || !data.content
validateBody(data) ==
    IF data.kind \in {"null", "number", "string"} THEN Resolved(DEFAULT_CONFIG)
    ELSE IF data.branding # "value" \/ data.content # "value"
         THEN Resolved(spreadOverDefault(data))
    ELSE Resolved([branding |-> "value", content |-> "value"])

\* queryFn for one attempt
queryFn(t) ==
    CASE t.kind = "networkError" -> catchError(Error("TypeError", t.message), FALSE)
      [] t.kind \in {"timeout", "cancelled"} -> catchError(Error("AbortError", t.message), TRUE)
      [] t.kind = "cancelledLate" -> catchError(Error("Error", CancelledMessage), TRUE)
      [] t.kind = "response" ->
           IF ~ok(t.status)
           THEN IF t.status >= 500 THEN Resolved(DEFAULT_CONFIG)
                ELSE catchError(Error("Error", httpErrorMessage(t.status)), FALSE)
           ELSE IF t.body.kind = "malformed"
                THEN catchError(Error("SyntaxError", SyntaxMessage), FALSE)
                ELSE validateBody(t.body)

\* retry: (failureCount, error) => ...
retry(failureCount, message) ==
    /\ failureCount < 1
    /\ LET errorMessage == toLowerCase(message)
       IN  \/ includes(errorMessage, WordNetwork)
           \/ includes(errorMessage, WordTimeout)
           \/ includes(errorMessage, Word500)
           \/ includes(errorMessage, Word503)
           \/ includes(errorMessage, Word502)

MaxConfigFetches == 2

\* the query fetches: on mount, on window focus, on invalidation
ConfigFetch ==
    /\ cfgPc = "idle"
    /\ cfgFetches < MaxConfigFetches
    /\ cfgPc' = "fetching"
    /\ cfgFetches' = cfgFetches + 1
    /\ cfgTransport' = NoTransport
    /\ cfgFailureCount' = 0
    /\ UNCHANGED cfgResult

\* an attempt settles: the query takes what queryFn resolved with, or, when
\* it rejected, asks retry whether to run queryFn again
ConfigSettle ==
    /\ cfgPc = "fetching"
    /\ \E t \in ConfigTransports :
           LET r == queryFn(t)
           IN  /\ cfgTransport' = IF cfgFailureCount = 0 THEN t ELSE cfgTransport
               /\ IF r.kind = "rejected" /\ retry(cfgFailureCount, r.message)
                  THEN /\ cfgFailureCount' = cfgFailureCount + 1
                       /\ UNCHANGED <<cfgPc, cfgResult>>
                  ELSE /\ cfgResult' = r
                       /\ cfgPc' = "idle"
                       /\ UNCHANGED cfgFailureCount
    /\ UNCHANGED cfgFetches

ConfigIdle ==
    /\ cfgPc = "idle"
    /\ cfgTransport = NoTransport
    /\ cfgFailureCount = 0
    /\ cfgResult = NoResult
    /\ cfgFetches = 0

\* no form is on the page
FormIdle ==
    /\ formKind = "demo"
    /\ csrfToken = 0
    /\ csrfFetching = FALSE
    /\ issued = 0
    /\ mutationPc = "idle"
    /\ postToken = 0
    /\ postStatus = 0
    /\ formMounted = FALSE
    /\ honeypot = FALSE
    /\ submits = 0
    /\ mutationError = [isError |-> FALSE, message |-> <<>>, status |-> 0]
    /\ rootError = <<>>
    /\ isSuccess = FALSE
    /\ timers = 0
    /\ posts = 0

\* the setup page has sent nothing
RequestsIdle ==
    /\ reqKind = "none"
    /\ reqPc = "idle"
    /\ reqHeader = 0

\* no method of safeLocalStorage and no character counter has been called
HelpersIdle ==
    /\ stOp = "none"
    /\ stArg = Null
    /\ stBefore = Null
    /\ stReturn = [bool |-> FALSE, text |-> Null]
    /\ countField = "companyName"
    /\ valueLength = 0
    /\ countText = <<>>

(***************************************************************************)
(* The specifications                                                      *)
(***************************************************************************)
\* no document is rendered and nothing is in memory
Unloaded ==
    /\ page = "loading"
    /\ step = FirstStep
    /\ wantsSlack = FALSE
    /\ restartSetup = FALSE
    /\ configured = "undefined"
    /\ fetching = FALSE
    /\ polling = FALSE
    /\ oldFetches = FALSE
    /\ seenTrue = FALSE
    /\ seenFalse = FALSE
    /\ isRateLimited = FALSE
    /\ everLimited = FALSE
    /\ journey = "none"
    /\ savedFrom = 0
    /\ effects = {}
    /\ urlParam = "none"
    /\ oauthTimer = FALSE
    /\ branding = Idle
    /\ credentials = CredsIdle
    /\ slackWait = FALSE
    /\ validate = Idle
    /\ cardReset = FALSE
    /\ intact = FALSE

\* the wizard: the page is about to be opened, in a browser whose storage,
\* where there is one, holds anything under the key (what a storage that
\* denies every access holds is never seen: two values stand for all),
\* against a backend in either state
Init ==
    /\ Unloaded
    /\ storageMode \in StorageModes
    /\ stored \in CASE storageMode = "unavailable" -> {Null}
                     [] storageMode = "denied" -> {Null, <<"3">>}
                     [] OTHER -> StoredInputs
    /\ serverConfigured \in BOOLEAN
    /\ lead = [name |-> ValidName, email |-> ValidEmail, phone |-> Undefined,
               message |-> ValidMessage]
    /\ result = NotParsed
    /\ again = NotParsed
    /\ schemaPc = "input"
    /\ ConfigIdle
    /\ FormIdle
    /\ RequestsIdle
    /\ HelpersIdle

Next ==
    \/ Mount /\ UNCHANGED <<schemaVars, configVars, formVars, requestVars, helperVars, everLimited, journey, savedFrom>>
    \/ RunEffects /\ UNCHANGED <<schemaVars, configVars, formVars, requestVars, helperVars, everLimited, journey, savedFrom>>
    \/ StatusResponse /\ UNCHANGED <<schemaVars, configVars, formVars, requestVars, helperVars, everLimited, journey, savedFrom>>
    \/ OldStatusResponse /\ UNCHANGED <<schemaVars, configVars, formVars, requestVars, helperVars, everLimited, journey, savedFrom>>
    \/ StatusRefetch /\ UNCHANGED <<schemaVars, configVars, formVars, requestVars, helperVars, everLimited, journey, savedFrom>>
    \/ StatusPoll /\ UNCHANGED <<schemaVars, configVars, formVars, requestVars, helperVars, everLimited, journey, savedFrom>>
    \/ Forward /\ UNCHANGED <<schemaVars, configVars, formVars, requestVars, helperVars, everLimited, journey, savedFrom>>
    \/ Back /\ UNCHANGED <<schemaVars, configVars, formVars, requestVars, helperVars, everLimited, journey, savedFrom>>
    \/ ToggleSlack /\ UNCHANGED <<schemaVars, configVars, formVars, requestVars, helperVars, everLimited, journey, savedFrom>>
    \/ BrandingContinue /\ UNCHANGED <<schemaVars, configVars, formVars, requestVars, helperVars, everLimited, journey, savedFrom>>
    \/ BrandingResponse /\ UNCHANGED <<schemaVars, configVars, formVars, requestVars, helperVars, everLimited, journey, savedFrom>>
    \/ BrandingSettled /\ UNCHANGED <<schemaVars, configVars, formVars, requestVars, helperVars, everLimited, journey, savedFrom>>
    \/ CredentialsSave /\ UNCHANGED <<schemaVars, configVars, formVars, requestVars, helperVars, everLimited, journey, savedFrom>>
    \/ SlackComplete /\ UNCHANGED <<schemaVars, configVars, formVars, requestVars, helperVars, everLimited, journey, savedFrom>>
    \/ CredentialsResponse /\ UNCHANGED <<schemaVars, configVars, formVars, requestVars, helperVars, everLimited, journey, savedFrom>>
    \/ CredentialsSettled /\ UNCHANGED <<schemaVars, configVars, formVars, requestVars, helperVars, everLimited, journey, savedFrom>>
    \/ SlackFinish /\ UNCHANGED <<schemaVars, configVars, formVars, requestVars, helperVars, everLimited, journey, savedFrom>>
    \/ ValidateTest /\ UNCHANGED <<schemaVars, configVars, formVars, requestVars, helperVars, everLimited, journey, savedFrom>>
    \/ ValidateResponse /\ UNCHANGED <<schemaVars, configVars, formVars, requestVars, helperVars, everLimited, journey, savedFrom>>
    \/ ValidateSettled /\ UNCHANGED <<schemaVars, configVars, formVars, requestVars, helperVars, everLimited, journey, savedFrom>>
    \/ OAuthTimerFires /\ UNCHANGED <<schemaVars, configVars, formVars, requestVars, helperVars, everLimited, journey, savedFrom>>
    \/ EditConfiguration /\ UNCHANGED <<schemaVars, configVars, formVars, requestVars, helperVars, everLimited, journey, savedFrom>>
    \/ CardResetClick /\ UNCHANGED <<schemaVars, configVars, formVars, requestVars, helperVars, everLimited, journey, savedFrom>>
    \/ CardResetResponse /\ UNCHANGED <<schemaVars, configVars, formVars, requestVars, helperVars, everLimited, journey, savedFrom>>
    \/ Reload /\ UNCHANGED <<schemaVars, configVars, formVars, requestVars, helperVars, everLimited, journey, savedFrom>>
    \/ AuthorizeWithGoogle /\ UNCHANGED <<schemaVars, configVars, formVars, requestVars, helperVars, everLimited, journey, savedFrom>>
    \/ WizardReset /\ UNCHANGED <<schemaVars, configVars, formVars, requestVars, helperVars, everLimited, journey, savedFrom>>

Spec == Init /\ [][Next]_vars

\* the wizard with the history of its status requests kept.  Storage plays no
\* part in it: the page is opened with nothing stored or on the OAuth step
InitSession ==
    /\ Init
    /\ storageMode = "ok"
    /\ stored \in {Null, toString(OAuthStep)}

\* everLimited turns true with the first HTTP 429 (isRateLimited, false until
\* then, is set by it) and is forgotten when the page is unloaded
\* journey follows the user who switched Slack on at the Notifications step:
\* "opted" from the switch, "authorized" once the browser comes back from
\* Google with success=true, "slack" once the Slack setup view has been
\* rendered after that; switching Slack off takes it back to "none".
\* savedFrom is the step on which Continue started the branding save that
\* has not finished yet
Track ==
    /\ everLimited' = (page' = "mounted" /\ (everLimited \/ (isRateLimited' /\ ~isRateLimited)))
    /\ journey' = CASE page = "mounted" /\ page' = "mounted" /\ wantsSlack' # wantsSlack ->
                          IF wantsSlack' THEN "opted" ELSE "none"
                     [] page = "mounted" /\ page' = "loading" /\ step = OAuthStep
                          /\ urlParam' = "success" /\ journey = "opted" -> "authorized"
                     [] journey = "authorized" /\ SlackSetupShown' -> "slack"
                     [] OTHER -> journey
    /\ savedFrom' = CASE branding'.status = "idle" -> 0
                       [] branding.status = "idle" -> step
                       [] OTHER -> savedFrom

NextSession ==
    \/ Mount /\ Track /\ UNCHANGED <<schemaVars, configVars, formVars, requestVars, helperVars>>
    \/ RunEffects /\ Track /\ UNCHANGED <<schemaVars, configVars, formVars, requestVars, helperVars>>
    \/ StatusResponse /\ Track /\ UNCHANGED <<schemaVars, configVars, formVars, requestVars, helperVars>>
    \/ OldStatusResponse /\ Track /\ UNCHANGED <<schemaVars, configVars, formVars, requestVars, helperVars>>
    \/ StatusRefetch /\ Track /\ UNCHANGED <<schemaVars, configVars, formVars, requestVars, helperVars>>
    \/ StatusPoll /\ Track /\ UNCHANGED <<schemaVars, configVars, formVars, requestVars, helperVars>>
    \/ Forward /\ Track /\ UNCHANGED <<schemaVars, configVars, formVars, requestVars, helperVars>>
    \/ Back /\ Track /\ UNCHANGED <<schemaVars, configVars, formVars, requestVars, helperVars>>
    \/ ToggleSlack /\ Track /\ UNCHANGED <<schemaVars, configVars, formVars, requestVars, helperVars>>
    \/ BrandingContinue /\ Track /\ UNCHANGED <<schemaVars, configVars, formVars, requestVars, helperVars>>
    \/ BrandingResponse /\ Track /\ UNCHANGED <<schemaVars, configVars, formVars, requestVars, helperVars>>
    \/ BrandingSettled /\ Track /\ UNCHANGED <<schemaVars, configVars, formVars, requestVars, helperVars>>
    \/ CredentialsSave /\ Track /\ UNCHANGED <<schemaVars, configVars, formVars, requestVars, helperVars>>
    \/ SlackComplete /\ Track /\ UNCHANGED <<schemaVars, configVars, formVars, requestVars, helperVars>>
    \/ CredentialsResponse /\ Track /\ UNCHANGED <<schemaVars, configVars, formVars, requestVars, helperVars>>
    \/ CredentialsSettled /\ Track /\ UNCHANGED <<schemaVars, configVars, formVars, requestVars, helperVars>>
    \/ SlackFinish /\ Track /\ UNCHANGED <<schemaVars, configVars, formVars, requestVars, helperVars>>
    \/ ValidateTest /\ Track /\ UNCHANGED <<schemaVars, configVars, formVars, requestVars, helperVars>>
    \/ ValidateResponse /\ Track /\ UNCHANGED <<schemaVars, configVars, formVars, requestVars, helperVars>>
    \/ ValidateSettled /\ Track /\ UNCHANGED <<schemaVars, configVars, formVars, requestVars, helperVars>>
    \/ OAuthTimerFires /\ Track /\ UNCHANGED <<schemaVars, configVars, formVars, requestVars, helperVars>>
    \/ EditConfiguration /\ Track /\ UNCHANGED <<schemaVars, configVars, formVars, requestVars, helperVars>>
    \/ CardResetClick /\ Track /\ UNCHANGED <<schemaVars, configVars, formVars, requestVars, helperVars>>
    \/ CardResetResponse /\ Track /\ UNCHANGED <<schemaVars, configVars, formVars, requestVars, helperVars>>
    \/ Reload /\ Track /\ UNCHANGED <<schemaVars, configVars, formVars, requestVars, helperVars>>
    \/ AuthorizeWithGoogle /\ Track /\ UNCHANGED <<schemaVars, configVars, formVars, requestVars, helperVars>>
    \/ WizardReset /\ Track /\ UNCHANGED <<schemaVars, configVars, formVars, requestVars, helperVars>>

SpecSession == InitSession /\ [][NextSession]_vars

\* the schema: safeParse is applied to one input drawn from Leads
InitSchema ==
    /\ lead \in Leads
    /\ result = NotParsed
    /\ again = NotParsed
    /\ schemaPc = "input"
    /\ Unloaded
    /\ stored = Null
    /\ storageMode = "ok"
    /\ serverConfigured = FALSE
    /\ ConfigIdle
    /\ FormIdle
    /\ RequestsIdle
    /\ HelpersIdle

\* leadSubmissionSchema.safeParse(lead)
Parse ==
    /\ schemaPc = "input"
    /\ result' = safeParse(lead)
    /\ schemaPc' = "parsed"
    /\ UNCHANGED <<lead, again>>
    /\ UNCHANGED <<wizardVars, configVars, formVars, requestVars, helperVars>>

\* leadSubmissionSchema.safeParse(result.data): the accepted output is
\* validated once more, as the server does with what the client validated
Reparse ==
    /\ schemaPc = "parsed"
    /\ result.success
    /\ again' = safeParse(result.data)
    /\ schemaPc' = "reparsed"
    /\ UNCHANGED <<lead, result>>
    /\ UNCHANGED <<wizardVars, configVars, formVars, requestVars, helperVars>>

NextSchema == Parse \/ Reparse

SpecSchema == InitSchema /\ [][NextSchema]_vars

\* the wizard is not open and no lead is being parsed
WizardClosed ==
    /\ Unloaded
    /\ stored = Null
    /\ storageMode = "ok"
    /\ serverConfigured = FALSE
SchemaIdle ==
    /\ lead = [name |-> ValidName, email |-> ValidEmail, phone |-> Undefined,
               message |-> ValidMessage]
    /\ result = NotParsed
    /\ again = NotParsed
    /\ schemaPc = "input"

\* the configuration query of a page that was just opened
InitConfig ==
    /\ ConfigIdle
    /\ FormIdle
    /\ RequestsIdle
    /\ HelpersIdle
    /\ WizardClosed
    /\ SchemaIdle

NextConfig ==
    \/ ConfigFetch /\ UNCHANGED <<schemaVars, wizardVars, formVars, requestVars, helperVars>>
    \/ ConfigSettle /\ UNCHANGED <<schemaVars, wizardVars, formVars, requestVars, helperVars>>

SpecConfig == InitConfig /\ [][NextConfig]_vars

(***************************************************************************)
(* The lead forms: the csrf-token query and the submit mutation            *)
(***************************************************************************)
MaxTokens == 3
MaxSubmits == 3
NoToken == 0

\* getCsrfToken settles: it throws (the request failed or was not ok), or it
\* returns data.token, a fresh token or nothing usable when the answer holds
\* none
TokenOutcomes == {"token", "empty", "error"}
tokenOf(outcome) == IF outcome = "token" THEN issued + 1 ELSE NoToken

\* apiRequest: the X-CSRF-Token header is set only for a truthy token
apiRequestHeader(token) == IF token # NoToken THEN token ELSE NoToken

\* an Error as the mutation sees it: message, and status where
\* throwIfResNotOk set one (0: undefined)
ApiError(message, status) == [isError |-> TRUE, message |-> message, status |-> status]
NoError == [isError |-> FALSE, message |-> <<>>, status |-> 0]

\* the words onError and getErrorMessage look for
WordCSRF == <<"C", "S", "R", "F">>
WordSetupIncomplete == <<"S", "e", "t", "u", "p", " ", "i", "n", "c", "o", "m", "p", "l", "e", "t", "e">>
WordSETUP_INCOMPLETE == <<"S", "E", "T", "U", "P", "_", "I", "N", "C", "O", "M", "P", "L", "E", "T", "E">>
WordGoogleNotConfigured == <<"G", "o", "o", "g", "l", "e", " ", "a", "u", "t", "h", "e", "n", "t", "i", "c", "a", "t", "i", "o", "n", " ", "n", "o", "t", " ", "c", "o", "n", "f", "i", "g", "u", "r", "e", "d">>
WordNotConfigured == <<"n", "o", "t", " ", "c", "o", "n", "f", "i", "g", "u", "r", "e", "d">>
WordOAuth == <<"O", "A", "u", "t", "h">>
WordGoogleAuthentication == <<"G", "o", "o", "g", "l", "e", " ", "a", "u", "t", "h", "e", "n", "t", "i", "c", "a", "t", "i", "o", "n">>
WordRefreshToken == <<"r", "e", "f", "r", "e", "s", "h", " ", "t", "o", "k", "e", "n">>
WordInvalidGrant == <<"i", "n", "v", "a", "l", "i", "d", "_", "g", "r", "a", "n", "t">>

\* the texts the forms put on the screen
TextTokenNotReady == <<"S", "e", "c", "u", "r", "i", "t", "y", " ", "t", "o", "k", "e", "n", " ", "n", "o", "t", " ", "r", "e", "a", "d", "y", ".", " ", "P", "l", "e", "a", "s", "e", " ", "w", "a", "i", "t", " ", "a", " ", "m", "o", "m", "e", "n", "t", " ", "a", "n", "d", " ", "t", "r", "y", " ", "a", "g", "a", "i", "n", ".">>
TextSetupIncompleteDemo == <<"S", "e", "t", "u", "p", " ", "i", "n", "c", "o", "m", "p", "l", "e", "t", "e", ".", " ", "P", "l", "e", "a", "s", "e", " ", "c", "o", "m", "p", "l", "e", "t", "e", " ", "t", "h", "e", " ", "s", "e", "t", "u", "p", " ", "w", "i", "z", "a", "r", "d", " ", "a", "t", " ", "/", "s", "e", "t", "u", "p", " ", "t", "o", " ", "e", "n", "a", "b", "l", "e", " ", "f", "o", "r", "m", " ", "s", "u", "b", "m", "i", "s", "s", "i", "o", "n", "s", ".">>
TextGoogleNotConfigured == <<"G", "o", "o", "g", "l", "e", " ", "a", "u", "t", "h", "e", "n", "t", "i", "c", "a", "t", "i", "o", "n", " ", "n", "o", "t", " ", "c", "o", "n", "f", "i", "g", "u", "r", "e", "d", ".", " ", "P", "l", "e", "a", "s", "e", " ", "c", "o", "m", "p", "l", "e", "t", "e", " ", "s", "e", "t", "u", "p", " ", "a", "t", " ", "/", "s", "e", "t", "u", "p">>
TextGoogleFailed == <<"G", "o", "o", "g", "l", "e", " ", "a", "u", "t", "h", "e", "n", "t", "i", "c", "a", "t", "i", "o", "n", " ", "f", "a", "i", "l", "e", "d", ".", " ", "P", "l", "e", "a", "s", "e", " ", "g", "o", " ", "t", "o", " ", "/", "s", "e", "t", "u", "p", " ", "a", "n", "d", " ", "r", "e", "-", "a", "u", "t", "h", "e", "n", "t", "i", "c", "a", "t", "e", " ", "w", "i", "t", "h", " ", "G", "o", "o", "g", "l", "e", " ", "(", "S", "t", "e", "p", " ", "2", ")", ".">>
TextFailedToSubmit == <<"F", "a", "i", "l", "e", "d", " ", "t", "o", " ", "s", "u", "b", "m", "i", "t", " ", "f", "o", "r", "m", ".", " ", "P", "l", "e", "a", "s", "e", " ", "t", "r", "y", " ", "a", "g", "a", "i", "n", ".">>
TextSomethingWrong == <<"S", "o", "m", "e", "t", "h", "i", "n", "g", " ", "w", "e", "n", "t", " ", "w", "r", "o", "n", "g", ".", " ", "P", "l", "e", "a", "s", "e", " ", "t", "r", "y", " ", "a", "g", "a", "i", "n", ".">>
TextSetupIncompleteEmbed == <<"S", "e", "t", "u", "p", " ", "i", "n", "c", "o", "m", "p", "l", "e", "t", "e", ".", " ", "P", "l", "e", "a", "s", "e", " ", "c", "o", "m", "p", "l", "e", "t", "e", " ", "t", "h", "e", " ", "s", "e", "t", "u", "p", " ", "w", "i", "z", "a", "r", "d", " ", "t", "o", " ", "e", "n", "a", "b", "l", "e", " ", "f", "o", "r", "m", " ", "s", "u", "b", "m", "i", "s", "s", "i", "o", "n", "s", ".">>
TextFailedToSend == <<"F", "a", "i", "l", "e", "d", " ", "t", "o", " ", "s", "e", "n", "d", " ", "m", "e", "s", "s", "a", "g", "e", ".", " ", "P", "l", "e", "a", "s", "e", " ", "t", "r", "y", " ", "a", "g", "a", "i", "n", ".">>
TextInvalidResponse == <<"I", "n", "v", "a", "l", "i", "d", " ", "r", "e", "s", "p", "o", "n", "s", "e", " ", "f", "r", "o", "m", " ", "s", "e", "r", "v", "e", "r", ".", " ", "P", "l", "e", "a", "s", "e", " ", "t", "r", "y", " ", "a", "g", "a", "i", "n", ".">>
TextBackendUnavailable == <<"B", "a", "c", "k", "e", "n", "d", " ", "s", "e", "r", "v", "i", "c", "e", " ", "u", "n", "a", "v", "a", "i", "l", "a", "b", "l", "e", ".", " ", "T", "h", "i", "s", " ", "i", "s", " ", "e", "x", "p", "e", "c", "t", "e", "d", " ", "w", "h", "e", "n", " ", "r", "u", "n", "n", "i", "n", "g", " ", "t", "h", "e", " ", "p", "o", "r", "t", "f", "o", "l", "i", "o", " ", "f", "r", "o", "n", "t", "e", "n", "d", " ", "w", "i", "t", "h", "o", "u", "t", " ", "b", "a", "c", "k", "e", "n", "d", " ", "s", "e", "r", "v", "i", "c", "e", "s", ".">>

\* bodies of an answer that is not ok: JSON with a message, with an error
\* code, with neither, or something that is not JSON, possibly empty
ErrorBodies ==
    {[kind |-> "json", message |-> m, error |-> <<>>, text |-> <<>>] :
         m \in {<<"I", "n", "v", "a", "l", "i", "d", " ", "C", "S", "R", "F", " ", "t", "o", "k", "e", "n">>, <<"S", "e", "t", "u", "p", " ", "i", "n", "c", "o", "m", "p", "l", "e", "t", "e">>,
                <<"G", "o", "o", "g", "l", "e", " ", "a", "u", "t", "h", "e", "n", "t", "i", "c", "a", "t", "i", "o", "n", " ", "n", "o", "t", " ", "c", "o", "n", "f", "i", "g", "u", "r", "e", "d">>, <<"i", "n", "v", "a", "l", "i", "d", "_", "g", "r", "a", "n", "t">>,
                <<"T", "o", "o", " ", "m", "a", "n", "y", " ", "r", "e", "q", "u", "e", "s", "t", "s">>}}
    \cup {[kind |-> "json", message |-> <<>>, error |-> e, text |-> <<>>] :
              e \in {<<"S", "E", "T", "U", "P", "_", "I", "N", "C", "O", "M", "P", "L", "E", "T", "E">>, <<>>}}
    \cup {[kind |-> "text", message |-> <<>>, error |-> <<>>, text |-> t] :
              t \in {<<"<", "h", "t", "m", "l", ">", "B", "a", "d", " ", "G", "a", "t", "e", "w", "a", "y", "<", "/", "h", "t", "m", "l", ">">>, <<>>}}
NoBody == [kind |-> "none", message |-> <<>>, error |-> <<>>, text |-> <<>>]

\* what happens to POST /api/v1/submit-lead: fetch rejects, or an answer
\* arrives: ok with a JSON body or not, or not ok with a status line that has
\* a reason phrase (HTTP/1.1) or none (HTTP/2) and a body
SubmitStatuses == {400, 403, 412, 500}
SubmitAnswers ==
    {[kind |-> "network", status |-> 0, phrase |-> FALSE, json |-> FALSE, body |-> NoBody]}
    \cup {[kind |-> "response", status |-> 200, phrase |-> TRUE, json |-> j, body |-> NoBody] :
              j \in BOOLEAN}
    \cup {[kind |-> "response", status |-> st, phrase |-> ph, json |-> FALSE, body |-> b] :
              st \in SubmitStatuses, ph \in BOOLEAN, b \in ErrorBodies}

\* throwIfResNotOk: the message of the error for an answer that is not ok
throwIfResNotOk(answer) ==
    LET errorMessage == IF answer.phrase THEN reasonPhrase(answer.status)
                        ELSE <<"H", "T", "T", "P", " ">> \o toString(answer.status) \o <<" ", "e", "r", "r", "o", "r">>
        body == answer.body
    IN  ApiError(IF body.kind = "json"
                 THEN IF body.message # <<>> THEN body.message
                      ELSE IF body.error # <<>> THEN body.error
                      ELSE errorMessage
                 ELSE IF body.text # <<>> THEN body.text ELSE errorMessage,
                 answer.status)

\* how mutationFn ends once its POST has settled: NoError when it returns
apiRequest(answer) ==
    IF answer.kind = "network" THEN ApiError(<<"F", "a", "i", "l", "e", "d", " ", "t", "o", " ", "f", "e", "t", "c", "h">>, 0)
    ELSE IF ~ok(answer.status) THEN throwIfResNotOk(answer)
    ELSE IF answer.json THEN NoError
    ELSE IF formKind = "demo" THEN ApiError(TextInvalidResponse, 0)
    ELSE ApiError(SyntaxMessage, 0)

\* errors getCsrfToken throws
TokenErrors == {ApiError(TextBackendUnavailable, 0), ApiError(<<"F", "a", "i", "l", "e", "d", " ", "t", "o", " ", "f", "e", "t", "c", "h">>, 0),
                ApiError(<<"H", "T", "T", "P", " ", "5", "0", "0", " ", "e", "r", "r", "o", "r">>, 500)}

\* onError of DemoFormSection: the message it sets as the root error
onErrorMessage(error) ==
    IF \/ error.status = 412
       \/ includes(error.message, WordSetupIncomplete)
       \/ includes(error.message, WordSETUP_INCOMPLETE)
    THEN TextSetupIncompleteDemo
    ELSE IF \/ includes(error.message, WordGoogleNotConfigured)
            \/ includes(error.message, WordNotConfigured)
    THEN TextGoogleNotConfigured
    ELSE IF \/ includes(error.message, WordOAuth)
            \/ includes(error.message, WordGoogleAuthentication)
            \/ includes(error.message, WordRefreshToken)
            \/ includes(error.message, WordInvalidGrant)
    THEN TextGoogleFailed
    ELSE IF error.message # <<>> THEN error.message ELSE TextFailedToSubmit

\* getErrorMessage of EmbeddableForm
getErrorMessage(error) ==
    IF \/ error.status = 412
       \/ includes(error.message, WordSetupIncomplete)
       \/ includes(error.message, WordSETUP_INCOMPLETE)
    THEN TextSetupIncompleteEmbed
    ELSE IF error.message # <<>> THEN error.message ELSE TextFailedToSend

\* a variant of the error display that shows the root error of the form only
shownErrorRootOnly == IF formMounted /\ ~isSuccess THEN rootError ELSE <<>>

\* the error text on the screen (empty: none).  The form, and its error
\* display, is rendered while isSuccess is false
shownError ==
    IF ~formMounted \/ isSuccess THEN <<>>
    ELSE IF formKind = "demo"
         THEN IF mutationError.isError \/ rootError # <<>>
              THEN IF rootError # <<>> THEN rootError
                   ELSE IF mutationError.message # <<>> THEN mutationError.message
                   ELSE TextSomethingWrong
              ELSE <<>>
         ELSE IF mutationError.isError THEN getErrorMessage(mutationError) ELSE <<>>

\* a variant of the honeypot check that lets everything through
honeypotBlocksNever == FALSE

\* EmbeddableForm's submit callback: if (honeypotInput?.value) return
honeypotBlocks == formKind = "embed" /\ honeypot

\* a variant of the submit control that is never disabled
submitDisabledNever == FALSE

\* disabled={mutation.isPending}
submitDisabled == mutationPc # "idle"

\* onError of DemoFormSection: refetchCsrfToken() for a CSRF message or a 403;
\* EmbeddableForm has no onError
onErrorRefetches(error) ==
    formKind = "demo" /\ (includes(error.message, WordCSRF) \/ error.status = 403)

\* clearTimeout(timeoutRef.current): the ref holds the timer set last
clearTimeout(pending) == IF pending > 0 THEN pending - 1 ELSE 0

\* the mutation has failed with `error`: mutation.isError, and onError
mutationFails(error) ==
    /\ mutationError' = error
    /\ rootError' = IF formKind = "demo" THEN onErrorMessage(error) ELSE rootError
    /\ csrfFetching' = (csrfFetching \/ onErrorRefetches(error))
    /\ UNCHANGED <<isSuccess, timers>>

\* onSuccess (both forms): the success view, form.reset(), one timer in place
\* of the one the ref holds, and a refetch of the token
mutationSucceeds ==
    /\ mutationError' = NoError
    /\ isSuccess' = TRUE
    /\ rootError' = <<>>
    /\ timers' = clearTimeout(timers) + 1
    /\ csrfFetching' = TRUE

\* the csrf-token query settles: useQuery on mount, or a refetch
TokenResponse ==
    /\ csrfFetching
    /\ \E outcome \in TokenOutcomes :
           /\ outcome = "token" => issued < MaxTokens
           /\ csrfToken' = IF outcome = "error" THEN csrfToken ELSE tokenOf(outcome)
           /\ issued' = IF outcome = "token" THEN issued + 1 ELSE issued
    /\ csrfFetching' = FALSE
    /\ UNCHANGED <<formKind, mutationPc, postToken, postStatus, formMounted, honeypot,
                   submits, mutationError, rootError, isSuccess, timers, posts>>

\* something fills the hidden honeypot input
FillHoneypot ==
    /\ formMounted
    /\ ~honeypot
    /\ honeypot' = TRUE
    /\ UNCHANGED <<formKind, csrfToken, csrfFetching, issued, mutationPc, postToken,
                   postStatus, formMounted, submits, mutationError, rootError, isSuccess,
                   timers, posts>>

\* the submit handler with valid fields (handleSubmit drops the root error).
\* DemoFormSection.onSubmit sets an error and returns when there is no token;
\* EmbeddableForm returns when the honeypot is filled.  mutation.mutate runs
\* mutationFn: with a token it sends the POST, without one it calls
\* getCsrfToken first
Submit ==
    /\ formMounted
    /\ ~isSuccess
    /\ ~submitDisabled
    /\ submits < MaxSubmits
    /\ submits' = submits + 1
    /\ IF formKind = "demo" /\ csrfToken = NoToken
       THEN /\ rootError' = TextTokenNotReady
            /\ UNCHANGED <<mutationPc, postToken, mutationError, posts>>
       ELSE IF honeypotBlocks
       THEN UNCHANGED <<mutationPc, postToken, mutationError, rootError, posts>>
       ELSE /\ mutationError' = NoError
            /\ rootError' = <<>>
            /\ IF csrfToken # NoToken
               THEN /\ mutationPc' = "posting"
                    /\ postToken' = apiRequestHeader(csrfToken)
                    /\ posts' = posts + 1
               ELSE /\ mutationPc' = "token"
                    /\ UNCHANGED <<postToken, posts>>
    /\ UNCHANGED <<formKind, csrfToken, csrfFetching, issued, postStatus, formMounted,
                   honeypot, isSuccess, timers>>

\* getCsrfToken inside mutationFn settles: the mutation fails when it throws,
\* otherwise apiRequest sends the POST with what it returned
MutationTokenResponse ==
    /\ mutationPc = "token"
    /\ \E outcome \in TokenOutcomes :
           /\ outcome = "token" => issued < MaxTokens
           /\ issued' = IF outcome = "token" THEN issued + 1 ELSE issued
           /\ IF outcome = "error"
              THEN /\ mutationPc' = "idle"
                   /\ \E error \in TokenErrors : mutationFails(error)
                   /\ UNCHANGED <<postToken, posts>>
              ELSE /\ mutationPc' = "posting"
                   /\ postToken' = apiRequestHeader(tokenOf(outcome))
                   /\ posts' = posts + 1
                   /\ UNCHANGED <<mutationError, rootError, csrfFetching, isSuccess, timers>>
    /\ UNCHANGED <<formKind, csrfToken, postStatus, formMounted, honeypot, submits>>

\* the POST settles; onSuccess or onError runs, mounted or not
SubmitResponse ==
    /\ mutationPc = "posting"
    /\ mutationPc' = IF posts > 1 THEN "posting" ELSE "idle"
    /\ posts' = posts - 1
    /\ \E answer \in SubmitAnswers :
           /\ postStatus' = answer.status
           /\ IF apiRequest(answer) = NoError
              THEN mutationSucceeds
              ELSE mutationFails(apiRequest(answer))
    /\ UNCHANGED <<formKind, csrfToken, issued, postToken, formMounted, honeypot, submits>>

\* the timer of onSuccess fires: setIsSuccess(false)
SuccessTimerFires ==
    /\ timers > 0
    /\ timers' = timers - 1
    /\ isSuccess' = FALSE
    /\ UNCHANGED <<formKind, csrfToken, csrfFetching, issued, mutationPc, postToken,
                   postStatus, formMounted, honeypot, submits, mutationError, rootError,
                   posts>>

\* the component unmounts: the cleanup effect clears the timer the ref holds
FormUnmount ==
    /\ formMounted
    /\ formMounted' = FALSE
    /\ timers' = clearTimeout(timers)
    /\ UNCHANGED <<formKind, csrfToken, csrfFetching, issued, mutationPc, postToken,
                   postStatus, honeypot, submits, mutationError, rootError, isSuccess,
                   posts>>

\* a page with one of the forms was opened: the csrf-token query fetches
InitForm ==
    /\ formKind \in {"demo", "embed"}
    /\ csrfToken = NoToken
    /\ csrfFetching = TRUE
    /\ issued = 0
    /\ mutationPc = "idle"
    /\ postToken = NoToken
    /\ postStatus = 0
    /\ formMounted = TRUE
    /\ honeypot = FALSE
    /\ submits = 0
    /\ mutationError = NoError
    /\ rootError = <<>>
    /\ isSuccess = FALSE
    /\ timers = 0
    /\ posts = 0
    /\ RequestsIdle
    /\ HelpersIdle
    /\ ConfigIdle
    /\ WizardClosed
    /\ SchemaIdle

NextForm ==
    \/ TokenResponse /\ UNCHANGED <<schemaVars, wizardVars, configVars, requestVars, helperVars>>
    \/ FillHoneypot /\ UNCHANGED <<schemaVars, wizardVars, configVars, requestVars, helperVars>>
    \/ Submit /\ UNCHANGED <<schemaVars, wizardVars, configVars, requestVars, helperVars>>
    \/ MutationTokenResponse /\ UNCHANGED <<schemaVars, wizardVars, configVars, requestVars, helperVars>>
    \/ SubmitResponse /\ UNCHANGED <<schemaVars, wizardVars, configVars, requestVars, helperVars>>
    \/ SuccessTimerFires /\ UNCHANGED <<schemaVars, wizardVars, configVars, requestVars, helperVars>>
    \/ FormUnmount /\ UNCHANGED <<schemaVars, wizardVars, configVars, requestVars, helperVars>>

SpecForm == InitForm /\ [][NextForm]_vars

(***************************************************************************)
(* The state-changing requests of the setup page: each handler of the      *)
(* wizard and of the setup-complete card, from its click to its request    *)
(***************************************************************************)
\* the handlers that send a POST or DELETE to /api/v1/setup/...
WizardRequests == {"validate", "upload-logo", "branding", "credentials", "test-webhook",
                   "reset"}
CardRequests == {"card-reset"}

\* a handler runs.  Those of the wizard first await getCsrfToken();
\* SetupCompleteCard.handleReset calls fetch at once, with no headers
RequestStart ==
    /\ reqPc = "idle"
    /\ \E kind \in WizardRequests \cup CardRequests :
           /\ reqKind' = kind
           /\ IF kind \in CardRequests
              THEN /\ reqPc' = "sent"
                   /\ reqHeader' = NoToken
              ELSE /\ reqPc' = "token"
                   /\ UNCHANGED reqHeader
    /\ UNCHANGED issued

\* getCsrfToken settles in a handler of the wizard: when it throws or returns
\* nothing the handler gives up, otherwise it sends its request with the token
RequestToken ==
    /\ reqPc = "token"
    /\ \E outcome \in TokenOutcomes :
           /\ outcome = "token" => issued < MaxTokens
           /\ issued' = IF outcome = "token" THEN issued + 1 ELSE issued
           /\ IF tokenOf(outcome) = NoToken
              THEN /\ reqPc' = "idle"
                   /\ UNCHANGED reqHeader
              ELSE /\ reqPc' = "sent"
                   /\ reqHeader' = tokenOf(outcome)
    /\ UNCHANGED reqKind

\* the request is answered or fails
RequestSettles ==
    /\ reqPc = "sent"
    /\ reqPc' = "idle"
    /\ UNCHANGED <<reqKind, reqHeader, issued>>

InitRequests ==
    /\ RequestsIdle
    /\ HelpersIdle
    /\ FormIdle
    /\ ConfigIdle
    /\ WizardClosed
    /\ SchemaIdle

NextRequests ==
    \/ RequestStart /\ UNCHANGED <<schemaVars, wizardVars, configVars, formKind, csrfToken,
                   csrfFetching, mutationPc, postToken, postStatus, formMounted,
                   honeypot, submits, mutationError, rootError, isSuccess, timers, posts,
                   helperVars>>
    \/ RequestToken /\ UNCHANGED <<schemaVars, wizardVars, configVars, formKind, csrfToken,
                   csrfFetching, mutationPc, postToken, postStatus, formMounted,
                   honeypot, submits, mutationError, rootError, isSuccess, timers, posts,
                   helperVars>>
    \/ RequestSettles /\ UNCHANGED <<schemaVars, wizardVars, configVars, formKind, csrfToken,
                   csrfFetching, mutationPc, postToken, postStatus, formMounted,
                   honeypot, submits, mutationError, rootError, isSuccess, timers, posts,
                   helperVars>>

SpecRequests == InitRequests /\ [][NextRequests]_vars

(***************************************************************************)
(* safeLocalStorage called on its own (SpecStorage)                        *)
(***************************************************************************)
\* the values the wizard writes: step.toString()
WrittenValues == {toString(n) : n \in FirstStep..TOTAL_STEPS(TRUE)}

\* safeLocalStorage.setItem(SETUP_STORAGE_KEY, value)
StorageSet ==
    \E value \in WrittenValues : \E out \in setItem(value) :
        /\ stOp' = "setItem"
        /\ stArg' = value
        /\ stBefore' = stored
        /\ stored' = out.stored
        /\ stReturn' = [bool |-> out.ok, text |-> Null]

\* safeLocalStorage.getItem(SETUP_STORAGE_KEY)
StorageGet ==
    /\ stOp' = "getItem"
    /\ stArg' = Null
    /\ stBefore' = stored
    /\ stReturn' = [bool |-> FALSE, text |-> getItem]
    /\ UNCHANGED stored

\* safeLocalStorage.removeItem(SETUP_STORAGE_KEY)
StorageRemove ==
    /\ stOp' = "removeItem"
    /\ stArg' = Null
    /\ stBefore' = stored
    /\ stored' = removeItem(stored)
    /\ stReturn' = [bool |-> storageMode \in {"ok", "quota"}, text |-> Null]

\* the wizard's variables that safeLocalStorage does not touch
besideStorage == <<page, step, storageMode, wantsSlack, restartSetup, configured, fetching,
                   polling, oldFetches, seenTrue, seenFalse, isRateLimited, everLimited,
                   journey, savedFrom, serverConfigured, effects, urlParam, oauthTimer,
                   branding, credentials, slackWait, validate, cardReset, intact>>

InitStorage ==
    /\ Init
    /\ serverConfigured = FALSE

NextStorage ==
    \/ StorageSet /\ UNCHANGED <<schemaVars, besideStorage, configVars, formVars, requestVars,
                                  countField, valueLength, countText>>
    \/ StorageGet /\ UNCHANGED <<schemaVars, besideStorage, configVars, formVars, requestVars,
                                  countField, valueLength, countText>>
    \/ StorageRemove /\ UNCHANGED <<schemaVars, besideStorage, configVars, formVars, requestVars,
                                     countField, valueLength, countText>>

SpecStorage == InitStorage /\ [][NextStorage]_vars

(***************************************************************************)
(* The character counter of the wizard's fields (SpecCounter)              *)
(***************************************************************************)
\* FIELD_MAX_LENGTHS
FIELD_MAX_LENGTHS ==
    [f \in {"companyName"} |-> 255]
    @@ [f \in {"logo", "siteUrl", "socialLink", "url"} |-> 500]
    @@ [f \in {"primaryColor", "secondaryColor"} |-> 20]
    @@ [f \in {"heroTitle", "formTitle", "keywords"} |-> 200]
    @@ [f \in {"heroDescription", "formDescription", "footerDescription"} |-> 1000]
    @@ [f \in {"heroCtaText", "heroSecondaryCtaText", "heroTertiaryCtaText", "formSubmitText",
               "headerCtaText", "pageTitle", "ogTitle"} |-> 100]
    @@ [f \in {"navigationLabel", "googleAnalyticsId", "googleTagManagerId",
               "facebookPixelId", "linkedinInsightTag"} |-> 50]
    @@ [f \in {"metaDescription", "ogDescription"} |-> 300]
    @@ [f \in {"customAnalyticsScript"} |-> 5000]

Fields == DOMAIN FIELD_MAX_LENGTHS

\* how far beyond a field's maximum the values tried go
OverMax == 2

\* the lengths tried for a field: empty, short, around the warning threshold
\* and around the maximum
ValueLengths(f) ==
    LET max == FIELD_MAX_LENGTHS[f]
        tenth == max \div 10
    IN  {0, 1} \cup ((max - tenth - 1)..(max - tenth + 1)) \cup ((max - 1)..(max + OverMax))

\* exceedsMaxLength(field, value)
exceedsMaxLength(f, length) == length > FIELD_MAX_LENGTHS[f]

\* Math.max
MathMax(a, b) == IF a >= b THEN a ELSE b

\* Math.abs
MathAbs(a) == IF a < 0 THEN -a ELSE a

\* getRemainingChars(field, value)
getRemainingChars(f, length) == MathMax(0, FIELD_MAX_LENGTHS[f] - length)

TextOverLimit == <<" ", "o", "v", "e", "r", " ", "l", "i", "m", "i", "t", ")">>
TextRemaining == <<" ", "r", "e", "m", "a", "i", "n", "i", "n", "g", ")">>

\* getCharCountText(field, value); remaining < max * 0.1 is 10 * remaining < max
getCharCountText(f, length) ==
    LET current == length
        max == FIELD_MAX_LENGTHS[f]
        remaining == getRemainingChars(f, length)
        isWarning == 10 * remaining < max
        isError == remaining < 0
        head == toString(current) \o <<"/">> \o toString(max)
    IN  IF isError
        THEN head \o <<" ", "(">> \o toString(MathAbs(remaining)) \o TextOverLimit
        ELSE IF isWarning
        THEN head \o <<" ", "(">> \o toString(remaining) \o TextRemaining
        ELSE head

\* the counter is rendered for one field and one value
CountCharacters ==
    /\ countText = <<>>
    /\ countText' = getCharCountText(countField, valueLength)
    /\ UNCHANGED <<countField, valueLength>>

InitCounter ==
    /\ countField \in Fields
    /\ valueLength \in ValueLengths(countField)
    /\ countText = <<>>
    /\ stOp = "none"
    /\ stArg = Null
    /\ stBefore = Null
    /\ stReturn = [bool |-> FALSE, text |-> Null]
    /\ WizardClosed
    /\ SchemaIdle
    /\ ConfigIdle
    /\ FormIdle
    /\ RequestsIdle

NextCounter ==
    \/ CountCharacters /\ UNCHANGED <<schemaVars, wizardVars, configVars, formVars, requestVars,
                                       stOp, stArg, stBefore, stReturn>>

SpecCounter == InitCounter /\ [][NextCounter]_vars


(***************************************************************************)
(* Properties of leadSubmissionSchema (under SpecSchema)                   *)
(***************************************************************************)
Parsed == schemaPc = "parsed"

\* the issues reported on a field
issuesAt(path) == {i \in 1..Len(result.issues) : result.issues[i].path = path}
messagesAt(path) == {result.issues[i].message : i \in issuesAt(path)}

\* how the text fields of the input were built
nameDescs == {d \in NameDescs : build(d) = lead.name}
messageDescs == {d \in MessageDescs : build(d) = lead.message}
emailDescs == {d \in EmailDescs : buildEmail(d) = lead.email}

\* C1: an input whose name, email and message are valid and within the length
\* bounds (a name of 1 to 100 and a message of 1 to 1000 characters once the
\* markup and the surrounding white space are taken off, a well-formed address)
\* is accepted, and the output holds the name and the message without markup
\* and surrounding white space and the trimmed address in lower case.
C1_ValidInputNormalised ==
    Parsed =>
        \A n \in nameDescs, m \in messageDescs, e \in emailDescs :
            (/\ Len(n.core) \in 1..NameMax
             /\ Len(m.core) \in 1..MessageMax
             /\ lead.phone = Undefined)
            => /\ result.success
               /\ result.data.name = n.core
               /\ result.data.message = m.core
               /\ result.data.email = e.case.out

\* the other fields of the input are plainly valid
OthersValid(field) ==
    /\ field = "name" \/ lead.name = ValidName
    /\ field = "email" \/ lead.email = ValidEmail
    /\ field = "phone" \/ lead.phone = Undefined
    /\ field = "message" \/ lead.message = ValidMessage

\* C2: a name or message that holds nothing but markup the sanitizer strips,
\* or nothing but white space, is rejected with the "required" error of its
\* field, and no accepted output has an empty name or an empty message.
C2_BlankAfterSanitizeRequired ==
    Parsed =>
        /\ lead.name \in BlankTexts(NameMax)
               => ~result.success /\ "Name is required" \in messagesAt("name")
        /\ lead.message \in BlankTexts(MessageMax)
               => ~result.success /\ "Message is required" \in messagesAt("message")
        /\ result.success
               => Len(result.data.name) >= 1 /\ Len(result.data.message) >= 1

\* a text of plain characters: no markup and no white space
Plain(s) == s # Undefined /\ \A i \in 1..Len(s) : s[i] \in AlphaNum

\* C3: with the other fields valid, a message of N plain characters is
\* accepted exactly when 1 <= N <= 1000.
C3_MessageLengthBounds ==
    (Parsed /\ OthersValid("message") /\ Plain(lead.message))
        => (result.success <=> Len(lead.message) \in 1..MessageMax)

\* a message of exactly 1000 plain characters has been accepted
C3_Witness ==
    /\ Parsed /\ OthersValid("message") /\ Plain(lead.message)
    /\ Len(lead.message) = MessageMax
    /\ result.success

\* C4: with the other fields valid, a name without markup is accepted exactly
\* when its length without leading and trailing white space is 1 to 100.
C4_NameBoundAfterTrim ==
    (Parsed /\ OthersValid("name"))
        => \A d \in nameDescs :
               ~d.wrap /\ (\A i \in 1..Len(d.core) : d.core[i] \notin {"<", ">"})
                   => (result.success <=> Len(d.core) \in 1..NameMax)

\* the phone pattern, spelled out: optional "+", optional "(", 3 digits,
\* optional ")", optional separator, 3 digits, optional separator, 4 to 6 digits
Optional(present, class) == IF present THEN <<class>> ELSE <<>>
PhoneShapes ==
    {Optional(f.plus, {"+"}) \o Optional(f.open, {"("}) \o <<Digits, Digits, Digits>>
     \o Optional(f.close, {")"}) \o Optional(f.sep1, {"-", "."} \cup WhiteSpace)
     \o <<Digits, Digits, Digits>> \o Optional(f.sep2, {"-", "."} \cup WhiteSpace)
     \o [i \in 1..f.last |-> Digits] :
        f \in [plus : BOOLEAN, open : BOOLEAN, close : BOOLEAN, sep1 : BOOLEAN,
               sep2 : BOOLEAN, last : 4..6]}
NotWhiteSpace(c) == c \notin WhiteSpace
MatchesPhonePattern(s) ==
    LET t == SelectSeq(s, NotWhiteSpace)
    IN  \E shape \in PhoneShapes :
            Len(t) = Len(shape) /\ \A i \in 1..Len(t) : t[i] \in shape[i]

\* C5: with the other fields valid, an input without a phone is accepted, and
\* one with a non-empty phone is accepted exactly when the phone without its
\* white space matches the pattern; "(555) 123-4567" is accepted, "555-123"
\* and "+1-555-123-456-7890" are rejected.
C5_PhonePattern ==
    (Parsed /\ OthersValid("phone")) =>
        /\ lead.phone = Undefined => result.success
        /\ lead.phone \notin {Undefined, <<>>}
               => (result.success <=> MatchesPhonePattern(lead.phone))
        /\ lead.phone = <<"(", "5", "5", "5", ")", " ", "1", "2", "3", "-", "4", "5", "6", "7">>
               => result.success
        /\ lead.phone = <<"5", "5", "5", "-", "1", "2", "3">> => ~result.success
        /\ lead.phone = <<"+", "1", "-", "5", "5", "5", "-", "1", "2", "3", "-", "4", "5", "6", "-", "7", "8", "9", "0">>
               => ~result.success

\* a phone that matches only once its white space is removed has been accepted
C5_Witness ==
    /\ Parsed /\ OthersValid("phone")
    /\ lead.phone = <<"+", "5", "5", "5", " ", "1", "2", "3", " ", "4", "5", "6", "7", " ">>
    /\ MatchesPhonePattern(lead.phone)
    /\ result.success

\* C6: every input whose trimmed email holds a carriage return or a line feed
\* is rejected, and no accepted output holds one in its email.
C6_NoNewlineInEmail ==
    Parsed =>
        /\ (lead.email # Undefined
            /\ \E i \in 1..Len(trim(lead.email)) : trim(lead.email)[i] \in {"\r", "\n"})
               => ~result.success
        /\ result.success
               => \A i \in 1..Len(result.data.email) :
                      result.data.email[i] \notin {"\r", "\n"}

\* an address with a line feed between otherwise valid parts, the other
\* fields valid, has been rejected
C6_Witness ==
    /\ Parsed /\ OthersValid("email")
    /\ lead.email = <<"j", "\n", "o", "@", "b", ".", "c", "o">>
    /\ ~result.success
    /\ "Email cannot contain newlines" \in messagesAt("email")

\* values that are invalid for their field whatever the reading of the bounds
InvalidNames ==
    {<<>>, Undefined} \cup {build(d) : d \in {x \in NameDescs : Len(x.core) > NameMax}}
InvalidEmails ==
    {Undefined} \cup MalformedEmails \cup NewlineEmails \cup (CoreEmails \ {ValidEmail})
    \cup {e \in LongEmails : Len(e) > EmailMax}
InvalidPhones == {p \in PhoneInputs \ {Undefined, <<>>} : ~MatchesPhonePattern(p)}
InvalidMessages ==
    {<<>>, Undefined} \cup {build(d) : d \in {x \in MessageDescs : Len(x.core) > MessageMax}}
InvalidFields ==
    (IF lead.name \in InvalidNames THEN {"name"} ELSE {})
    \cup (IF lead.email \in InvalidEmails THEN {"email"} ELSE {})
    \cup (IF lead.phone \in InvalidPhones THEN {"phone"} ELSE {})
    \cup (IF lead.message \in InvalidMessages THEN {"message"} ELSE {})

\* C7: one parse reports at least one issue for each invalid field, and every
\* issue carries the path of a field and a message that is not empty.
C7_EveryInvalidFieldReported ==
    Parsed =>
        /\ \A f \in InvalidFields : issuesAt(f) # {}
        /\ \A i \in 1..Len(result.issues) :
               /\ result.issues[i].path \in {"name", "email", "phone", "message"}
               /\ result.issues[i].message # ""

\* all four fields were invalid and each has its issue
C7_Witness ==
    /\ Parsed
    /\ InvalidFields = {"name", "email", "phone", "message"}
    /\ \A f \in InvalidFields : issuesAt(f) # {}

(***************************************************************************)
(* Properties of the setup wizard (under Spec)                             *)
(***************************************************************************)
\* the first commit after a load: the initialisers have run, no effect has
JustMounted == page = "mounted" /\ "oauth" \in effects
\* all effects have run
Quiescent == page = "mounted" /\ effects = {}
Readable == storageMode \in {"ok", "quota"}
Present == Readable /\ stored # Null

\* the text reads as a decimal number: a numeral, with or without a sign and
\* surrounding white space
IsNumeral(s) ==
    LET t == trim(s)
        from == IF t # <<>> /\ t[1] \in {"+", "-"} THEN 2 ELSE 1
    IN  from <= Len(t) /\ \A i \in from..Len(t) : t[i] \in Digits
\* the value of such a text, of at most two significant digits
numeralValue(s) ==
    LET t == trim(s)
        from == IF t[1] \in {"+", "-"} THEN 2 ELSE 1
        magnitude == CHOOSE n \in 0..99 :
                         \E z \in 0..Len(t) :
                             SubSeq(t, from, Len(t)) = Repeat("0", z) \o toString(n)
    IN  IF t[1] = "-" THEN 0 - magnitude ELSE magnitude

\* the text begins, after white space and an optional "+", with the decimal
\* integer n written with any number of leading zeros, and no digit follows
BeginsWithInteger(s, n) ==
    \E blanks \in 0..Len(s), plus \in 0..1, zeros \in 0..Len(s) :
        LET at == blanks + plus + zeros + 1
            last == at + Len(toString(n)) - 1
        IN  /\ last <= Len(s)
            /\ \A i \in 1..blanks : s[i] \in WhiteSpace
            /\ plus = 1 => s[blanks + 1] = "+"
            /\ \A i \in (blanks + plus + 1)..(at - 1) : s[i] = "0"
            /\ SubSeq(s, at, last) = toString(n)
            /\ last = Len(s) \/ s[last + 1] \notin Digits

C9_ResumeOnReload ==
    [][(page = "loading" /\ intact /\ page' = "mounted") => step' = step]_vars

\* C10 as stated: in every quiescent state of the mounted wizard with storage
\* writable, the stored value is the decimal string of the current step.
C10_Stated == (Quiescent /\ storageMode = "ok") => stored = toString(step)

\* C10, amended: in every quiescent state of the mounted wizard with storage
\* writable, the stored value is the decimal string of the current step, or
\* it is absent and a status with configured = true has been received in this
\* session; and every change of the step schedules a write of the new step.
C10_StoredStepOrCleared ==
    /\ [](Quiescent /\ storageMode = "ok"
              => \/ stored = toString(step)
                 \/ stored = Null /\ seenTrue)
    /\ [][(page' = "mounted" /\ step' # step) => "save" \in effects']_vars

\* the wizard is at rest past step 1 with nothing stored: a configured
\* status cleared the progress
C10_Witness ==
    /\ Quiescent /\ storageMode = "ok"
    /\ step > FirstStep
    /\ stored = Null
    /\ configured = "true"

\* C11: in every state of the mounted wizard the current step lies between
\* 1 and the total step count, 10 when Slack notifications are opted in and
\* 9 otherwise.
C11_StepWithinTotal ==
    page = "mounted" => step \in FirstStep..TOTAL_STEPS(wantsSlack)

\* a periodic poll is issued: a status request scheduled by refetchInterval
\* goes out
PollIssued == ~polling /\ polling'

C13_Stated == [][PollIssued => ~everLimited]_vars

\* C13, amended: no periodic poll is issued while the rate-limit flag is set;
\* the flag is set only by an HTTP 429 answer to a status request, and it is
\* cleared only when a later status request settles or the page is unloaded.
C13_NoPollWhileRateLimited ==
    /\ [][PollIssued => ~isRateLimited]_vars
    /\ [](page = "mounted" /\ isRateLimited => everLimited)
    /\ [][(isRateLimited /\ ~isRateLimited')
              => \/ page' # "mounted"
                 \/ fetching /\ ~fetching'
                 \/ oldFetches]_vars

\* a poll is outstanding on the OAuth step in a session in which a status
\* request was answered with HTTP 429 before
C13_Witness ==
    /\ page = "mounted"
    /\ step = OAuthStep
    /\ polling
    /\ everLimited

\* C14: the setup-complete card is rendered exactly when the status held by
\* the wizard reports configured and the user has not restarted or edited in
\* this session; restart and edit come from the card, lead to step 1 with the
\* step views rendered whatever the status says, and hold until the page is
\* unloaded.
C14_CardUnlessRestarted ==
    /\ [](page = "mounted" => (CardShown <=> configured = "true" /\ ~restartSetup))
    /\ [][(~restartSetup /\ restartSetup')
              => /\ CardShown \/ cardReset
                 /\ step' = FirstStep
                 /\ ~CardShown']_vars
    /\ [][(restartSetup /\ page' = "mounted") => restartSetup' /\ ~CardShown']_vars

\* after a restart or edit the view of step 1 is rendered although the status
\* reports configured
C14_Witness ==
    /\ StepView(FirstStep)
    /\ restartSetup
    /\ configured = "true"

(***************************************************************************)
(* Properties of the configuration query (under SpecConfig)                *)
(***************************************************************************)
\* a fetch has settled; cfgTransport is what the network did to it
ConfigSettled == cfgPc = "idle" /\ cfgFetches > 0

\* the request failed: no response, a response that is not ok, or a body
\* that is not a JSON object
ConfigFailure ==
    \/ cfgTransport.kind \in {"networkError", "timeout", "cancelled", "cancelledLate"}
    \/ cfgTransport.kind = "response" /\ ~ok(cfgTransport.status)
    \/ /\ cfgTransport.kind = "response" /\ ok(cfgTransport.status)
       /\ cfgTransport.body.kind \in {"malformed", "null", "number", "string"}

C16_BrandingAndContentUsable ==
    (ConfigSettled /\ cfgTransport.kind = "response" /\ ok(cfgTransport.status))
        => /\ cfgResult.kind = "resolved"
           /\ cfgResult.config.branding \in {"value", "default"}
           /\ cfgResult.config.content \in {"value", "default"}
           /\ cfgTransport.body.branding = "value" => cfgResult.config.branding = "value"
           /\ cfgTransport.body.content = "value" => cfgResult.config.content = "value"

C18_RefetchTokenOn403 ==
    [][(mutationPc = "posting" /\ mutationPc' = "idle" /\ postStatus' = 403)
          => csrfFetching']_vars

\* C19: in either form, a POST /api/v1/submit-lead in flight carries an
\* X-CSRF-Token header with a non-empty token.
C19_SubmitCarriesToken ==
    mutationPc = "posting" => postToken # NoToken

\* C21: every failed submission leaves the mounted form showing a non-empty
\* error text and not the success view, whatever the failure was.
C21_FailureShowsError ==
    /\ [][(~mutationError.isError /\ mutationError'.isError /\ formMounted')
              => /\ shownError' # <<>>
                 /\ ~isSuccess']_vars
    /\ [](formMounted /\ mutationError.isError => shownError # <<>>)

\* a POST answered 500 without reason phrase or body has failed, and the
\* form shows the text made up for it
C21_Witness ==
    /\ formMounted
    /\ postStatus = 500
    /\ mutationError.isError
    /\ mutationError.message = <<"H", "T", "T", "P", " ", "5", "0", "0", " ", "e", "r", "r", "o", "r">>
    /\ shownError = <<"H", "T", "T", "P", " ", "5", "0", "0", " ", "e", "r", "r", "o", "r">>

\* C22: in EmbeddableForm a submit with the honeypot filled sends nothing and
\* changes nothing: no request or token fetch starts, the error shown and the
\* success flag stay as they are.
C22_HoneypotSubmitIsSilent ==
    [][(formKind = "embed" /\ honeypot /\ submits' # submits)
          => UNCHANGED <<csrfToken, csrfFetching, issued, mutationPc, postToken, postStatus,
                         mutationError, rootError, isSuccess, timers, posts>>]_vars

\* EmbeddableForm was submitted with the honeypot filled and nothing has
\* happened
C22_Witness ==
    /\ formKind = "embed"
    /\ honeypot
    /\ submits > 0
    /\ mutationPc = "idle"
    /\ posts = 0
    /\ postStatus = 0
    /\ ~mutationError.isError
    /\ ~isSuccess
    /\ timers = 0

\* C23: the submit control is disabled while the mutation is pending, at most
\* one submit-lead request is in flight, and a request starts only when none
\* is in flight.
C23_OneSubmitInFlight ==
    /\ [](posts <= 1)
    /\ [](mutationPc # "idle" => submitDisabled)
    /\ [][posts' > posts => posts = 0]_vars

\* a second request is in flight after the first was answered
C23_Witness ==
    /\ posts = 1
    /\ submits >= 2
    /\ postStatus # 0

\* C28: at most one success-reset timer is pending, and none is pending once
\* the form is unmounted.
C28_OneTimerNoneAfterUnmount ==
    /\ timers <= 1
    /\ ~formMounted => timers = 0

(***************************************************************************)
(* Properties of the setup page's requests (under SpecRequests)            *)
(***************************************************************************)
\* C20: every POST or DELETE that the wizard or the setup-complete card has
\* in flight to a setup endpoint carries an X-CSRF-Token header.
C20_SetupRequestsCarryToken ==
    reqPc = "sent" => reqHeader # NoToken

(***************************************************************************)
(* Properties of the wizard's steps (under SpecSession)                    *)
(***************************************************************************)
\* C24: a user who opted into Slack at the Notifications step does not see
\* the completion view after a successful OAuth authorization before the
\* Slack setup view has been shown; and the Slack setup view is shown only
\* to a user who opted in.
C24_SlackSetupBeforeCompletion ==
    /\ CompletionShown => journey # "authorized"
    /\ SlackSetupShown => journey \in {"opted", "slack"}

\* C25: when the success handler of a credentials save started from the Slack
\* setup view returns, it has set step 8 and the Slack handler has not set
\* the completion step yet; that handler then sets step 10, so the completion
\* step is the later of the two and the one the wizard keeps.
C25_SlackSaveEndsOnCompletion ==
    /\ [][(credentials.from = "slack" /\ credentials.status = "settling"
             /\ credentials'.status = "idle" /\ page' = "mounted")
           => step' = OAuthStep /\ slackWait']_vars
    /\ [][(slackWait /\ ~slackWait' /\ page' = "mounted")
           => step' = TOTAL_STEPS(TRUE)]_vars

\* the Slack handler has finished and the completion view of a user who wants
\* Slack is on the screen
C25_Witness ==
    /\ CompletionShown
    /\ wantsSlack
    /\ step = TOTAL_STEPS(TRUE)
    /\ ~slackWait
    /\ credentials = CredsIdle

\* C26: a successful branding save moves the wizard to the step after the one
\* on which the save was started, whatever the user did while it was pending,
\* and a failed save leaves the step as it is.
C26_BrandingAdvancesFromStart ==
    /\ [][(branding.status = "settling" /\ branding'.status = "idle" /\ page' = "mounted")
           => step' = savedFrom + 1]_vars
    /\ [][(branding.status = "pending" /\ branding'.status = "idle" /\ page' = "mounted")
           => step' = step]_vars

(***************************************************************************)
(* Properties of safeLocalStorage (under SpecStorage)                      *)
(***************************************************************************)
\* C29: setItem returns true only if the value is then stored under the key,
\* and when it returns false the value stored before the call is still
\* there.
C29_FailedWriteKeepsValue ==
    stOp = "setItem" =>
        /\ stReturn.bool => stored = stArg
        /\ ~stReturn.bool => stored = stBefore

(***************************************************************************)
(* Properties of the character counter (under SpecCounter)                 *)
(***************************************************************************)
\* C30: the text returned says "over limit", with the number of characters
\* above the maximum, exactly when the value is longer than the field's
\* maximum, and says "remaining" only when the value is within the maximum.
C30_OverLimitIffTooLong ==
    countText # <<>> =>
        LET max == FIELD_MAX_LENGTHS[countField]
            over == toString(valueLength) \o <<"/">> \o toString(max) \o <<" ", "(">>
                    \o toString(valueLength - max) \o TextOverLimit
        IN  /\ exceedsMaxLength(countField, valueLength) => countText = over
            /\ includes(countText, TextOverLimit) => exceedsMaxLength(countField, valueLength)
            /\ includes(countText, TextRemaining) => ~exceedsMaxLength(countField, valueLength)

(***************************************************************************)
(* Validation of an accepted output (under SpecSchema)                     *)
(***************************************************************************)
\* C27: parsing the output of a successful parse succeeds and returns that
\* same output.
C27_ReparseIsIdentity ==
    schemaPc = "reparsed" => again.success /\ again.data = result.data

====
